---- MODULE Spec2Model ----
(***************************************************************************)
(* Ghost-job analysis pipeline (Job-Busters).                              *)
(*                                                                         *)
(* Two subsystems of the repository are modelled as state machines over    *)
(* the rows of the storage tables they touch:                              *)
(*                                                                         *)
(*  - the admission controller (request_lock_and_tokens, set_request_lock, *)
(*    release_request_lock of utils/supabase/action), one step per         *)
(*    storage call, under SpecLock;                                        *)
(*  - the orchestrator analyzeJob with the table helpers it calls          *)
(*    (getJobByCompositeKey, InsertToJobUpdatesTable, insertIntoJobTable,  *)
(*    InsertStructuredJobFeatures, createJobSnapshot, ...), one step per   *)
(*    storage call: one request at a time under SpecIngest, two requests   *)
(*    side by side under SpecRace.                                         *)
(*                                                                         *)
(* The functions that touch no table (the snapshot decision, the simhash   *)
(* functions of db/jobSnapshots, featureUpdateCadence of scoring/score)    *)
(* are operators; under SpecFunctions one of them is called once, on       *)
(* arguments drawn from the sets given with it.                            *)
(*                                                                         *)
(* Every storage call may fail (the `error` field of the supabase reply);  *)
(* the model follows the branch the code takes on that error.  Variables   *)
(* whose name starts with h_ are history variables: they record what a     *)
(* call saw and did, and no action reads them.                             *)
(***************************************************************************)
EXTENDS Integers, Sequences, FiniteSets, TLC

VARIABLES
    \* ---- admission controller -------------------------------------
    request_lock,   \* table request_lock: set of rows
    lpc,            \* per caller: position inside the call in flight
    luser,          \* per caller: userId argument of the call in flight
    ldata,          \* per caller: data.tokens_remaining read by the flip
    h_lpre,         \* per caller: the user's rows when the call started
    h_lframe,       \* per caller: no row of another user changed so far
    h_lcalls,       \* the last two completed calls, oldest first
    \* ---- job cache and snapshot engine ------------------------------
    now,            \* Date.now(), in hours
    jobs,           \* table jobs: sequence of rows, a row's id is its index
    job_features,   \* table job_features: set of rows, at most one per job_id
    job_updates,    \* table job_updates: rows in insertion order
    job_snapshots,  \* table job_snapshots: rows in order of snapshot_at
    apc,            \* per request: position inside analyzeJob
    adapterJob,     \* per request: what scrapeJobFromUrl returned (a set: {} is null)
    existingJob,    \* per request: what getJobByCompositeKey returned ({} is null)
    jobId,          \* per request: jobId
    latestSnapshot, \* per request: what getLatestSnapshotForJob returned ({} is null)
    result,         \* per request: the `success` of the value returned
    h_req,          \* per request: what it found at its start and what it wrote
    faults,         \* calls that have failed so far
    \* ---- functions without storage ----------------------------------
    call,           \* the function called and its arguments
    returned        \* what the call returned ({} while it has not)

lockVars == <<request_lock, lpc, luser, ldata, h_lpre, h_lframe, h_lcalls>>

tables == <<jobs, job_features, job_updates, job_snapshots>>

ingestVars == <<now, tables, apc, adapterJob, existingJob, jobId, latestSnapshot,
                result, h_req, faults>>

callVars == <<call, returned>>

vars == <<lockVars, ingestVars, callVars>>

----------------------------------------------------------------------------
(* Bounds of the model *)

\* callers of the admission controller
NumCallers == 2
\* set_request_lock is not started for a row whose tokens_remaining has
\* already sunk this far below zero (the counter has no floor in the code)
MaxDebt == 1
\* source-reported updated_at strings are 1..MaxStamp
MaxStamp == 3
\* the clock advances by TickHours while it is below MaxNow
TickHours == 12
MaxNow == 25
\* a request starts only while the two logs are shorter than this
MaxUpdates == 2
MaxSnapshots == 2
\* storage and collaborator calls that fail in one run
MaxFaults == 1
\* characters of a text given to generateSimhash
MaxTextLen == 4
\* timestamps given to featureUpdateCadence
MaxTimestamps == 4
\* the day on which scoreJob is called (new Date())
ScoringDay == 300
\* snapshots in the history given to featureContentChangeQuality
MaxHistory == 3

Callers == 1..NumCallers
Workers == {"w1", "w2"}
Users == {"u1", "u2"}
Tenants == {"acme"}
ExtIds == {"101"}

----------------------------------------------------------------------------
(* Admission controller: the request_lock table *)

\* tokens_remaining of a freshly created row
InitialTokens == 3

InitialRow_closed(userId) ==
    [user_id |-> userId, is_available |-> FALSE, tokens_remaining |-> InitialTokens]

InitialRow(userId) ==
    [user_id |-> userId, is_available |-> TRUE, tokens_remaining |-> InitialTokens]

\* .eq("user_id", userId)
RowsOf(table, userId) == {r \in table : r.user_id = userId}

\* the update without .eq("is_available", true)
FlipMatches_unconditional(r, userId) == r.user_id = userId

\* .update({is_available: false}).eq("user_id", userId).eq("is_available", true)
FlipMatches(r, userId) == r.user_id = userId /\ r.is_available = TRUE

\* { tokens_remaining: data.tokens_remaining - 1 }
DecrementedTokens_kept(tokens) == tokens

DecrementedTokens(tokens) == tokens - 1

\* .update({is_available: true}).eq("user_id", userId)
ReleasedRow_refilled(r) ==
    [r EXCEPT !.is_available = TRUE, !.tokens_remaining = InitialTokens]

ReleasedRow(r) == [r EXCEPT !.is_available = TRUE]

\* rows of every user but userId
OtherRows(table, userId) == {r \in table : r.user_id # userId}

Idle(p) == lpc[p] = "idle"

\* A completed call, as recorded in h_lcalls.
\* res is how the call ended, pre and post are the user's rows before its
\* first and after its last storage call.
CallRecord(op, userId, res, pre, post, frame) ==
    [op |-> op, user |-> userId, res |-> res, pre |-> pre, post |-> post,
     frame |-> frame]

\* h_lcalls keeps the last two completed calls.
Remember(calls, rec) ==
    IF Len(calls) < 2 THEN Append(calls, rec)
    ELSE Append(Tail(calls), rec)

\* The call of caller p for userId ends with result res; table is the table
\* it leaves and frame tells whether it left the other users' rows alone.
EndCall(p, op, userId, res, pre, table, frame) ==
    /\ lpc' = [lpc EXCEPT ![p] = "idle"]
    /\ luser' = [luser EXCEPT ![p] = "u1"]
    /\ ldata' = [ldata EXCEPT ![p] = 0]
    /\ h_lpre' = [h_lpre EXCEPT ![p] = {}]
    /\ h_lframe' = [h_lframe EXCEPT ![p] = TRUE]
    /\ h_lcalls' = Remember(h_lcalls,
          CallRecord(op, userId, res, pre, RowsOf(table, userId), frame))
    /\ UNCHANGED <<ingestVars, callVars>>

\* The call of caller p for userId goes on at position pc.
GoOn(p, pc, userId, data, pre, frame) ==
    /\ lpc' = [lpc EXCEPT ![p] = pc]
    /\ luser' = [luser EXCEPT ![p] = userId]
    /\ ldata' = [ldata EXCEPT ![p] = data]
    /\ h_lpre' = [h_lpre EXCEPT ![p] = pre]
    /\ h_lframe' = [h_lframe EXCEPT ![p] = frame]
    /\ UNCHANGED <<h_lcalls, ingestVars, callVars>>

FrameKept(table, userId) == OtherRows(table, userId) = OtherRows(request_lock, userId)

\* request_lock_and_tokens: the select .maybeSingle()
request_lock_and_tokens_select(p, userId, ok) ==
    /\ Idle(p)
    /\ UNCHANGED request_lock
    /\ LET pre == RowsOf(request_lock, userId)
       IN  IF ~ok
           THEN EndCall(p, "request", userId, "throw", pre, request_lock, TRUE)
           ELSE IF pre = {}
                THEN GoOn(p, "insert", userId, 0, pre, TRUE)
                ELSE EndCall(p, "request", userId, "row", pre, request_lock, TRUE)

\* request_lock_and_tokens: the insert of the initial row (user_id is the
\* key of the table: inserting a second row for a user is an error)
request_lock_and_tokens_insert(p, ok) ==
    /\ lpc[p] = "insert"
    /\ LET done == ok /\ RowsOf(request_lock, luser[p]) = {}
           table == IF done THEN request_lock \cup {InitialRow(luser[p])}
                    ELSE request_lock
       IN  /\ request_lock' = table
           /\ EndCall(p, "request", luser[p], IF done THEN "created" ELSE "throw",
                      h_lpre[p], table, h_lframe[p] /\ FrameKept(table, luser[p]))

\* set_request_lock: the conditional update that closes the lock
set_request_lock_flip(p, userId, ok) ==
    /\ Idle(p)
    /\ \A r \in RowsOf(request_lock, userId) : r.tokens_remaining > -MaxDebt
    /\ LET pre == RowsOf(request_lock, userId)
           hit == {r \in request_lock : FlipMatches(r, userId)}
           table == IF ok
                    THEN (request_lock \ hit)
                         \cup {[r EXCEPT !.is_available = FALSE] : r \in hit}
                    ELSE request_lock
           frame == FrameKept(table, userId)
       IN  /\ request_lock' = table
           /\ IF ~ok
              THEN EndCall(p, "set", userId, "throw", pre, table, frame)
              ELSE IF hit = {}
                   THEN EndCall(p, "set", userId, "false", pre, table, frame)
                   ELSE GoOn(p, "decrement", userId,
                             (CHOOSE r \in hit : TRUE).tokens_remaining, pre, frame)

\* set_request_lock: the update that takes one token
set_request_lock_decrement(p, ok) ==
    /\ lpc[p] = "decrement"
    /\ LET table == IF ok
                    THEN OtherRows(request_lock, luser[p])
                         \cup {[r EXCEPT !.tokens_remaining = DecrementedTokens(ldata[p])]
                               : r \in RowsOf(request_lock, luser[p])}
                    ELSE request_lock
           frame == h_lframe[p] /\ FrameKept(table, luser[p])
       IN  /\ request_lock' = table
           /\ IF ok
              THEN EndCall(p, "set", luser[p], "true", h_lpre[p], table, frame)
              ELSE GoOn(p, "compensate", luser[p], ldata[p], h_lpre[p], frame)

\* set_request_lock: the compensating update after a failed decrement; its
\* own error is not looked at, and decErr is thrown either way
set_request_lock_compensate_skipped(p, ok) ==
    /\ lpc[p] = "compensate"
    /\ UNCHANGED request_lock
    /\ EndCall(p, "set", luser[p], "throw_dec", h_lpre[p], request_lock, h_lframe[p])

set_request_lock_compensate(p, ok) ==
    /\ lpc[p] = "compensate"
    /\ LET table == IF ok
                    THEN OtherRows(request_lock, luser[p])
                         \cup {ReleasedRow(r) : r \in RowsOf(request_lock, luser[p])}
                    ELSE request_lock
       IN  /\ request_lock' = table
           /\ EndCall(p, "set", luser[p],
                      IF ok THEN "throw_dec" ELSE "throw_dec_uncompensated",
                      h_lpre[p], table, h_lframe[p] /\ FrameKept(table, luser[p]))

\* release_request_lock: one unconditional update; an error is only logged
release_request_lock(p, userId, ok) ==
    /\ Idle(p)
    /\ LET table == IF ok
                    THEN OtherRows(request_lock, userId)
                         \cup {ReleasedRow(r) : r \in RowsOf(request_lock, userId)}
                    ELSE request_lock
       IN  /\ request_lock' = table
           /\ EndCall(p, "release", userId, IF ok THEN "done" ELSE "logged",
                      RowsOf(request_lock, userId), table, FrameKept(table, userId))

\* One call at a time: a call starts only when no other call is in flight.
NoCallInFlight == \A q \in Callers : Idle(q)

LockVarsInit ==
    /\ request_lock = {}
    /\ lpc = [p \in Callers |-> "idle"]
    /\ luser = [p \in Callers |-> "u1"]
    /\ ldata = [p \in Callers |-> 0]
    /\ h_lpre = [p \in Callers |-> {}]
    /\ h_lframe = [p \in Callers |-> TRUE]
    /\ h_lcalls = <<>>

----------------------------------------------------------------------------
(* Job cache and snapshot engine: values and tables *)

\* null, for updated_at, ats_updated_at and last_seen
NULL == 0

\* updated_at strings as the source reports them
Stamps == 1..MaxStamp

\* new Date(s).getTime(): the instant a string denotes; the strings 1 and 2
\* denote the same instant (one timestamp written with two offsets)
GetTime(stamp) == (stamp + 1) \div 2

\* hoursSinceSeen < 24
FreshHours == 24

\* the AdapterJob fields the pipeline branches on; valid is what
\* validateJobPosting makes of the others
AdapterJobs ==
    [ats_provider : {"greenhouse", "web"}, tenant_slug : Tenants, external_job_id : ExtIds,
     updated_at : Stamps \cup {NULL}, valid : BOOLEAN]

\* what parseGreenhouseTenantAndJob makes of jobUrl: {} when the url is not
\* a greenhouse job url
ParsedUrls ==
    {{}} \cup {{[tenant |-> t, jobId |-> e]} : t \in Tenants, e \in ExtIds}

\* .eq('ats', ats).eq('tenant_slug', tenant_slug).eq('external_job_id', ...)
KeyMatches(row, ats, tenant_slug, external_job_id) ==
    /\ row.ats = ats
    /\ row.tenant_slug = tenant_slug
    /\ row.external_job_id = external_job_id

IdsOfKey(ats, tenant_slug, external_job_id) ==
    {i \in DOMAIN jobs : KeyMatches(jobs[i], ats, tenant_slug, external_job_id)}

\* the row of jobs with its job_features(*) joined
JobWithFeatures(i) ==
    [id |-> i, last_seen |-> jobs[i].last_seen, updated_at |-> jobs[i].updated_at,
     job_features |-> {f \in job_features : f.job_id = i}]

\* select ... .maybeSingle(); an error, and more than one row is one, gives null
getJobByCompositeKey(ats, tenant_slug, external_job_id, ok) ==
    LET ids == IdsOfKey(ats, tenant_slug, external_job_id)
    IN  IF ok /\ Cardinality(ids) = 1 THEN {JobWithFeatures(i) : i \in ids} ELSE {}

isJobFresh_inclusive(job) ==
    IF job.last_seen = NULL THEN FALSE
    ELSE now - job.last_seen <= FreshHours

isJobFresh(job) ==
    IF job.last_seen = NULL THEN FALSE
    ELSE now - job.last_seen < FreshHours

\* existingJob && isJobFresh(existingJob) && existingJob.job_features?.[0]
CacheHit(existing) ==
    \E job \in existing : isJobFresh(job) /\ job.job_features # {}

\* what validateJobPosting reads of a posting: which fields are present,
\* and whether the company is a bare hostname
Presence ==
    [hasTitle : BOOLEAN, hasLocation : BOOLEAN, hasSalary : BOOLEAN,
     hasTimeType : BOOLEAN, hasCurrency : BOOLEAN, hasDepartment : BOOLEAN,
     companyIsJustHostname : BOOLEAN]

\* the rules of validateJobPosting that can reject
validateJobPosting(job) ==
    LET completenessScore ==
            (IF job.hasTitle THEN 25 ELSE 0)
            + (IF job.hasLocation THEN 20 ELSE 0)
            + (IF job.hasSalary THEN 20 ELSE 0)
            + (IF job.hasTimeType THEN 10 ELSE 0)
            + (IF job.hasCurrency THEN 10 ELSE 0)
            + (IF job.hasDepartment THEN 5 ELSE 0)
            + (IF job.companyIsJustHostname THEN 0 ELSE 10)
    IN  /\ job.hasTitle
        /\ job.hasLocation \/ job.hasSalary
        /\ completenessScore >= 30
        /\ ~(job.companyIsJustHostname /\ completenessScore < 40)

\* incomingTime > existingTime, or no existing updated_at
UpdateIsNewer_never(incoming, existingUpdatedAt) == FALSE

UpdateIsNewer_orEqual(incoming, existingUpdatedAt) ==
    IF existingUpdatedAt = NULL THEN TRUE
    ELSE GetTime(incoming) >= GetTime(existingUpdatedAt)

UpdateIsNewer(incoming, existingUpdatedAt) ==
    IF existingUpdatedAt = NULL THEN TRUE
    ELSE GetTime(incoming) > GetTime(existingUpdatedAt)

\* upsert(..., { onConflict: 'ats,tenant_slug,external_job_id' }): the rows
\* the incoming one conflicts with
ConflictIds_none(job) == {}

ConflictIds(job) ==
    IdsOfKey(job.ats_provider, job.tenant_slug, job.external_job_id)

\* jobInsert: the columns the upsert writes; last_seen is not among them
\* and takes the column default, seen, in a new row
UpsertedJobs(job, seen) ==
    IF ConflictIds(job) = {}
    THEN Append(jobs, [ats |-> job.ats_provider, tenant_slug |-> job.tenant_slug,
                       external_job_id |-> job.external_job_id,
                       updated_at |-> job.updated_at, last_seen |-> seen,
                       is_active |-> TRUE])
    ELSE [i \in DOMAIN jobs |->
            IF i \in ConflictIds(job)
            THEN [jobs[i] EXCEPT !.updated_at = job.updated_at, !.is_active = TRUE]
            ELSE jobs[i]]

\* .select('id') of the upsert: jobId[0].id
UpsertedId(job) ==
    IF ConflictIds(job) = {} THEN Len(jobs) + 1
    ELSE CHOOSE i \in ConflictIds(job) : \A j \in ConflictIds(job) : i <= j

\* .order('snapshot_at', { ascending: false }).limit(1).maybeSingle()
getLatestSnapshotForJob(id, ok) ==
    LET mine == {i \in DOMAIN job_snapshots : job_snapshots[i].job_id = id}
    IN  IF ok /\ mine # {}
        THEN {job_snapshots[CHOOSE i \in mine : \A j \in mine : j <= i]}
        ELSE {}

hasAtsUpdatedAtChanged(oldSnapshot, newAtsUpdatedAt) ==
    IF oldSnapshot = {} THEN TRUE
    ELSE \E old \in oldSnapshot :
            IF old.ats_updated_at = NULL /\ newAtsUpdatedAt = NULL THEN FALSE
            ELSE IF old.ats_updated_at = NULL \/ newAtsUpdatedAt = NULL THEN TRUE
            ELSE old.ats_updated_at # newAtsUpdatedAt

\* createSnapshotData: the fields of the snapshot the pipeline reads back
createSnapshotData(id, job) == [job_id |-> id, ats_updated_at |-> job.updated_at]

\* the value of a set that stands for a nullable value
the(S) == CHOOSE x \in S : TRUE

\* crypto.createHash("sha256").update(text).digest("hex"): one digest per
\* text, and no two of the few texts of the model share theirs
Sha256Hex(text) == <<"sha256", text>>

\* const text = content || "": null ({}) is hashed as the empty string
generateContentHash(content) ==
    Sha256Hex(IF content = {} \/ content = {""} THEN "" ELSE the(content))

\* JSON.stringify(metadata, Object.keys(metadata).sort()): the fields of
\* metadata with their values, in the order of the sorted keys
MetadataString(jobData) ==
    <<<<"company_name", jobData.company_name>>,
      <<"first_published", jobData.first_published>>,
      <<"location", jobData.location>>,
      <<"requisition_id", jobData.requisition_id>>,
      <<"title", jobData.title>>,
      <<"updated_at", jobData.updated_at>>>>

\* the digest of the JSON text of the metadata fields
generateMetadataHash(jobData) == Sha256Hex(MetadataString(jobData))

\* createSnapshotData with the two hashes it computes
dbJobSnapshot(id, jobData) ==
    [job_id |-> id, ats_updated_at |-> jobData.updated_at,
     content_hash |-> generateContentHash(jobData.content),
     metadata_hash |-> generateMetadataHash(jobData)]

hasContentChanged(oldSnapshot, newSnapshot) ==
    \/ oldSnapshot.content_hash # newSnapshot.content_hash
    \/ oldSnapshot.metadata_hash # newSnapshot.metadata_hash

\* a snapshot is also due when a hash of the posting has changed
SnapshotDue_onContent(oldSnapshot, jobData) ==
    \/ oldSnapshot = {}
    \/ hasAtsUpdatedAtChanged(oldSnapshot, jobData.updated_at)
    \/ hasContentChanged(the(oldSnapshot), dbJobSnapshot(0, jobData))

\* the snapshot decision for an existing job, lines 321-329: a snapshot is
\* created when the job has none, or when hasAtsUpdatedAtChanged
SnapshotDue(oldSnapshot, jobData) ==
    \/ oldSnapshot = {}
    \/ hasAtsUpdatedAtChanged(oldSnapshot, jobData.updated_at)

----------------------------------------------------------------------------
(* Job cache and snapshot engine: analyzeJob, one step per storage call *)

NoWrites == [jobs |-> 0, job_features |-> 0, job_updates |-> 0, job_snapshots |-> 0]

\* history of a request that has not started
NoHistory ==
    [path |-> "none", found |-> {}, was |-> {}, featured |-> FALSE,
     snapped |-> {}, compared |-> {}, failed |-> {}, wrote |-> NoWrites]

\* history of a request at its lookup: the rows of jobs that have its key
\* (ids, and the rows as they are now), whether job_features has a row for
\* them, and the ats_updated_at of their latest snapshot; compared will be
\* the stored updated_at that InsertToJobUpdatesTable reads
StartHistory(path, ids, ok) ==
    LET mine == {k \in DOMAIN job_snapshots : job_snapshots[k].job_id \in ids}
    IN  [path |-> path, found |-> ids, was |-> {jobs[i] : i \in ids},
         featured |-> \E f \in job_features : f.job_id \in ids,
         snapped |-> {job_snapshots[k].ats_updated_at :
                         k \in {k \in mine : \A j \in mine : j <= k}},
         compared |-> {},
         failed |-> IF ok THEN {} ELSE {"lookup"}, wrote |-> NoWrites]

\* a call fails only while the run has failures left
Failing(failed) ==
    /\ failed => faults < MaxFaults
    /\ faults' = IF failed THEN faults + 1 ELSE faults

\* the request of p goes on at position pc, having written `applied` rows
\* of `table` (0 when the storage call failed or wrote nothing)
Noted(p, table, applied, ok) ==
    [h_req[p] EXCEPT !.wrote[table] = @ + applied,
                     !.failed = IF ok THEN @ ELSE @ \cup {apc[p]}]

Step(p, pc, table, applied, ok) ==
    /\ Failing(~ok)
    /\ apc' = [apc EXCEPT ![p] = pc]
    /\ h_req' = [h_req EXCEPT ![p] = Noted(p, table, applied, ok)]

\* return { success: ... }
ReturnValue(p, success) == result' = [result EXCEPT ![p] = success]

\* scrapeJobFromUrl returned null: lines 197-227
analyzeJob_unreachable(p, parsed, ok) ==
    /\ apc[p] = "idle"
    /\ LET existing == IF parsed = {} THEN {}
                       ELSE getJobByCompositeKey("greenhouse", the(parsed).tenant,
                                                 the(parsed).jobId, ok)
           found == IF parsed = {} THEN {}
                    ELSE IdsOfKey("greenhouse", the(parsed).tenant, the(parsed).jobId)
       IN  /\ adapterJob' = [adapterJob EXCEPT ![p] = {}]
           /\ existingJob' = [existingJob EXCEPT ![p] = existing]
           /\ apc' = [apc EXCEPT ![p] = IF existing = {} THEN "done" ELSE "mark_inactive"]
           /\ h_req' = [h_req EXCEPT ![p] =
                 StartHistory("unreachable", found, parsed = {} \/ ok)]
    /\ Failing(parsed # {} /\ ~ok)
    /\ ReturnValue(p, FALSE)
    /\ UNCHANGED <<lockVars, callVars, now, tables, jobId, latestSnapshot>>

\* the update that stamps last_seen and leaves is_active as it was
analyzeJob_mark_inactive_seen_only(p, ok) ==
    /\ apc[p] = "mark_inactive"
    /\ jobs' = IF ok
               THEN [i \in DOMAIN jobs |->
                       IF i = the(existingJob[p]).id
                       THEN [jobs[i] EXCEPT !.last_seen = now]
                       ELSE jobs[i]]
               ELSE jobs
    /\ Step(p, "done", "jobs", IF ok THEN 1 ELSE 0, ok)
    /\ UNCHANGED <<lockVars, callVars, now, job_features, job_updates, job_snapshots,
                   adapterJob, existingJob, jobId, latestSnapshot, result>>

\* .update({ is_active: false, last_seen: ... }).eq('id', existingJob.id);
\* the reply is not looked at
analyzeJob_mark_inactive(p, ok) ==
    /\ apc[p] = "mark_inactive"
    /\ jobs' = IF ok
               THEN [i \in DOMAIN jobs |->
                       IF i = the(existingJob[p]).id
                       THEN [jobs[i] EXCEPT !.is_active = FALSE, !.last_seen = now]
                       ELSE jobs[i]]
               ELSE jobs
    /\ Step(p, "done", "jobs", IF ok THEN 1 ELSE 0, ok)
    /\ UNCHANGED <<lockVars, callVars, now, job_features, job_updates, job_snapshots,
                   adapterJob, existingJob, jobId, latestSnapshot, result>>

\* a web posting that is persisted like a greenhouse one
FirstStep_web_persisted(path) ==
    CASE path = "hit" -> "score"
      [] path = "refresh" -> "upd_select"
      [] path = "new" -> "upsert"
      [] path = "web" -> "upsert"
      [] OTHER -> "done"

\* where a request goes after its lookup: a greenhouse posting to the
\* scoring (cache hit), to InsertToJobUpdatesTable (existing job) or to the
\* upsert (new job); any other posting to the scoring when it is valid and
\* to the return when it is not
FirstStep(path) ==
    CASE path = "hit" -> "score"
      [] path = "refresh" -> "upd_select"
      [] path = "new" -> "upsert"
      [] path = "web" -> "score"
      [] OTHER -> "done"

\* scrapeJobFromUrl returned a job: the lookup and the choice of the path,
\* lines 229-272 and 341-351
analyzeJob_lookup(p, job, ok) ==
    /\ apc[p] = "idle"
    /\ LET existing == getJobByCompositeKey(job.ats_provider, job.tenant_slug,
                                            job.external_job_id, ok)
           found == IdsOfKey(job.ats_provider, job.tenant_slug, job.external_job_id)
           path == IF job.ats_provider = "greenhouse"
                   THEN IF CacheHit(existing) THEN "hit"
                        ELSE IF existing # {} THEN "refresh" ELSE "new"
                   ELSE IF job.valid THEN "web" ELSE "rejected"
       IN  /\ adapterJob' = [adapterJob EXCEPT ![p] = {job}]
           /\ existingJob' = [existingJob EXCEPT ![p] = existing]
           /\ jobId' = [jobId EXCEPT ![p] =
                 IF path = "hit" THEN the(existing).id ELSE 0]
           /\ apc' = [apc EXCEPT ![p] = FirstStep(path)]
           /\ h_req' = [h_req EXCEPT ![p] = StartHistory(path, found, ok)]
    /\ Failing(~ok)
    /\ ReturnValue(p, FALSE)
    /\ UNCHANGED <<lockVars, callVars, now, tables, latestSnapshot>>

\* InsertToJobUpdatesTable: the select of the stored updated_at and the
\* comparison, lines 223-244 and 270-275
InsertToJobUpdatesTable_select_late(p, ok) ==
    /\ apc[p] = "upd_select"
    /\ LET incomingAtsUpdatedAt == the(adapterJob[p]).updated_at
           existingUpdatedAt == the(adapterJob[p]).updated_at
       IN  /\ Failing(~ok)
           /\ apc' = [apc EXCEPT ![p] =
                 IF ~ok \/ incomingAtsUpdatedAt = NULL THEN "upsert"
                 ELSE IF UpdateIsNewer(incomingAtsUpdatedAt, existingUpdatedAt)
                      THEN "upd_insert" ELSE "upd_seen"]
           /\ h_req' = [h_req EXCEPT ![p] =
                 [Noted(p, "job_updates", 0, ok) EXCEPT
                    !.compared = IF ok THEN {existingUpdatedAt} ELSE {}]]
    /\ UNCHANGED <<lockVars, callVars, now, tables, adapterJob, existingJob, jobId,
                   latestSnapshot, result>>

InsertToJobUpdatesTable_select(p, ok) ==
    /\ apc[p] = "upd_select"
    /\ LET incomingAtsUpdatedAt == the(adapterJob[p]).updated_at
           existingUpdatedAt == jobs[the(existingJob[p]).id].updated_at
       IN  /\ Failing(~ok)
           /\ apc' = [apc EXCEPT ![p] =
                 IF ~ok \/ incomingAtsUpdatedAt = NULL THEN "upsert"
                 ELSE IF UpdateIsNewer(incomingAtsUpdatedAt, existingUpdatedAt)
                      THEN "upd_insert" ELSE "upd_seen"]
           /\ h_req' = [h_req EXCEPT ![p] =
                 [Noted(p, "job_updates", 0, ok) EXCEPT
                    !.compared = IF ok THEN {existingUpdatedAt} ELSE {}]]
    /\ UNCHANGED <<lockVars, callVars, now, tables, adapterJob, existingJob, jobId,
                   latestSnapshot, result>>

\* an insert that replaces the events the job already has
InsertToJobUpdatesTable_insert_replacing(p, ok) ==
    /\ apc[p] = "upd_insert"
    /\ job_updates' =
          IF ok
          THEN LET row == [job_id |-> the(existingJob[p]).id,
                           ats_updated_at |-> the(adapterJob[p]).updated_at]
               IN  IF \E k \in DOMAIN job_updates : job_updates[k].job_id = row.job_id
                   THEN [k \in DOMAIN job_updates |->
                           IF job_updates[k].job_id = row.job_id THEN row
                           ELSE job_updates[k]]
                   ELSE Append(job_updates, row)
          ELSE job_updates
    /\ Step(p, "upd_seen", "job_updates", IF ok THEN 1 ELSE 0, ok)
    /\ UNCHANGED <<lockVars, callVars, now, jobs, job_features, job_snapshots, adapterJob,
                   existingJob, jobId, latestSnapshot, result>>

\* InsertToJobUpdatesTable: the insert into job_updates
InsertToJobUpdatesTable_insert(p, ok) ==
    /\ apc[p] = "upd_insert"
    /\ job_updates' =
          IF ok THEN Append(job_updates,
                            [job_id |-> the(existingJob[p]).id,
                             ats_updated_at |-> the(adapterJob[p]).updated_at])
          ELSE job_updates
    /\ Step(p, "upd_seen", "job_updates", IF ok THEN 1 ELSE 0, ok)
    /\ UNCHANGED <<lockVars, callVars, now, jobs, job_features, job_snapshots, adapterJob,
                   existingJob, jobId, latestSnapshot, result>>

\* InsertToJobUpdatesTable: "always update last_seen"
InsertToJobUpdatesTable_last_seen(p, ok) ==
    /\ apc[p] = "upd_seen"
    /\ jobs' = IF ok
               THEN [jobs EXCEPT ![the(existingJob[p]).id].last_seen = now]
               ELSE jobs
    /\ Step(p, "upsert", "jobs", IF ok THEN 1 ELSE 0, ok)
    /\ UNCHANGED <<lockVars, callVars, now, job_features, job_updates, job_snapshots,
                   adapterJob, existingJob, jobId, latestSnapshot, result>>

\* insertIntoJobTable and the test of its result, lines 170-220 and 282-286;
\* seen is the column default of last_seen
insertIntoJobTable(p, ok, seen) ==
    /\ apc[p] = "upsert"
    /\ LET job == the(adapterJob[p])
       IN  /\ jobs' = IF ok THEN UpsertedJobs(job, seen) ELSE jobs
           /\ jobId' = [jobId EXCEPT ![p] = IF ok THEN UpsertedId(job) ELSE 0]
           /\ Step(p, IF ~ok THEN "done"
                      ELSE IF existingJob[p] = {} /\ job.updated_at # NULL
                           THEN "first_update" ELSE "features",
                   "jobs", IF ok THEN 1 ELSE 0, ok)
    /\ UNCHANGED <<lockVars, callVars, now, job_features, job_updates, job_snapshots,
                   adapterJob, existingJob, latestSnapshot, result>>

\* "For new jobs: Always record the first update", lines 288-300
analyzeJob_first_update(p, ok) ==
    /\ apc[p] = "first_update"
    /\ job_updates' =
          IF ok THEN Append(job_updates,
                            [job_id |-> jobId[p],
                             ats_updated_at |-> the(adapterJob[p]).updated_at])
          ELSE job_updates
    /\ Step(p, "features", "job_updates", IF ok THEN 1 ELSE 0, ok)
    /\ UNCHANGED <<lockVars, callVars, now, jobs, job_features, job_snapshots, adapterJob,
                   existingJob, jobId, latestSnapshot, result>>

\* analyzeAdapterJob and InsertStructuredJobFeatures, lines 302-307: the NLP
\* client may throw, which ends the request in the catch of analyzeJob; an
\* error of the upsert is logged
InsertStructuredJobFeatures(p, nlp, ok) ==
    /\ apc[p] = "features"
    /\ job_features' =
          IF nlp /\ ok THEN job_features \cup {[job_id |-> jobId[p]]}
          ELSE job_features
    /\ IF ~nlp
       THEN /\ Failing(TRUE)
            /\ apc' = [apc EXCEPT ![p] = "done"]
            /\ h_req' = [h_req EXCEPT ![p].failed = @ \cup {"nlp"}]
       ELSE Step(p, IF existingJob[p] = {} THEN "snap_create" ELSE "snap_latest",
                 "job_features", IF ok THEN 1 ELSE 0, ok)
    /\ UNCHANGED <<lockVars, callVars, now, jobs, job_updates, job_snapshots, adapterJob,
                   existingJob, jobId, latestSnapshot, result>>

\* the snapshot decision for an existing job, lines 317-333
analyzeJob_latest_snapshot(p, ok) ==
    /\ apc[p] = "snap_latest"
    /\ LET latest == getLatestSnapshotForJob(jobId[p], ok)
       IN  /\ latestSnapshot' = [latestSnapshot EXCEPT ![p] = latest]
           /\ Step(p, IF SnapshotDue(latest, the(adapterJob[p]))
                      THEN "snap_create" ELSE "score",
                   "job_snapshots", 0, ok)
    /\ UNCHANGED <<lockVars, callVars, now, tables, adapterJob, existingJob, jobId, result>>

\* createJobSnapshot of createSnapshotData(jobId, adapterJob); its result is
\* not looked at
createJobSnapshot_dropped(p, ok) ==
    /\ apc[p] = "snap_create"
    /\ Step(p, "score", "job_snapshots", 0, ok)
    /\ UNCHANGED <<lockVars, callVars, now, tables, adapterJob, existingJob, jobId,
                   latestSnapshot, result>>

\* createJobSnapshot with a failed insert ending the request
createJobSnapshot_fatal(p, ok) ==
    /\ apc[p] = "snap_create"
    /\ job_snapshots' =
          IF ok THEN Append(job_snapshots,
                            createSnapshotData(jobId[p], the(adapterJob[p])))
          ELSE job_snapshots
    /\ Step(p, IF ok THEN "score" ELSE "done", "job_snapshots", IF ok THEN 1 ELSE 0, ok)
    /\ UNCHANGED <<lockVars, callVars, now, jobs, job_features, job_updates, adapterJob,
                   existingJob, jobId, latestSnapshot, result>>

createJobSnapshot(p, ok) ==
    /\ apc[p] = "snap_create"
    /\ job_snapshots' =
          IF ok THEN Append(job_snapshots,
                            createSnapshotData(jobId[p], the(adapterJob[p])))
          ELSE job_snapshots
    /\ Step(p, "score", "job_snapshots", IF ok THEN 1 ELSE 0, ok)
    /\ UNCHANGED <<lockVars, callVars, now, jobs, job_features, job_updates, adapterJob,
                   existingJob, jobId, latestSnapshot, result>>

\* steps 4 to 7, lines 363-441: the LLM analysis may throw; the reads of
\* job_updates and job_snapshots and the scoring write nothing
analyzeJob_score(p, llm) ==
    /\ apc[p] = "score"
    /\ Step(p, "done", "jobs", 0, llm)
    /\ ReturnValue(p, llm)
    /\ UNCHANGED <<lockVars, callVars, now, tables, adapterJob, existingJob, jobId,
                   latestSnapshot>>

\* the value is returned and the request is over
analyzeJob_return(p) ==
    /\ apc[p] = "done"
    /\ apc' = [apc EXCEPT ![p] = "idle"]
    /\ adapterJob' = [adapterJob EXCEPT ![p] = {}]
    /\ existingJob' = [existingJob EXCEPT ![p] = {}]
    /\ jobId' = [jobId EXCEPT ![p] = 0]
    /\ latestSnapshot' = [latestSnapshot EXCEPT ![p] = {}]
    /\ result' = [result EXCEPT ![p] = FALSE]
    /\ h_req' = [h_req EXCEPT ![p] = NoHistory]
    /\ UNCHANGED <<lockVars, callVars, now, tables, faults>>

\* time passes while no request is in flight
Tick ==
    /\ now < MaxNow
    /\ \A q \in Workers : apc[q] = "idle"
    /\ now' = now + TickHours
    /\ UNCHANGED <<lockVars, callVars, tables, apc, adapterJob, existingJob, jobId,
                   latestSnapshot, result, h_req, faults>>

InFlight == Cardinality({q \in Workers : apc[q] # "idle"})

\* a request starts only while the two logs have room for what it and the
\* requests in flight may append
LogsHaveRoom ==
    /\ Len(job_updates) + InFlight < MaxUpdates
    /\ Len(job_snapshots) + InFlight < MaxSnapshots

\* one request at a time: a request starts only when none is in flight
MayStart == InFlight = 0 /\ LogsHaveRoom

\* a posting that is not a greenhouse posting is valid or not, as
\* validateJobPosting answers on its fields; a greenhouse posting is not
\* validated
ScrapedJobs ==
    {job \in AdapterJobs :
        IF job.ats_provider = "web"
        THEN \E fields \in Presence : job.valid = validateJobPosting(fields)
        ELSE job.valid}

IngestVarsInit ==
    /\ now = 1
    /\ jobs = <<>>
    /\ job_features = {}
    /\ job_updates = <<>>
    /\ job_snapshots = <<>>
    /\ apc = [p \in Workers |-> "idle"]
    /\ adapterJob = [p \in Workers |-> {}]
    /\ existingJob = [p \in Workers |-> {}]
    /\ jobId = [p \in Workers |-> 0]
    /\ latestSnapshot = [p \in Workers |-> {}]
    /\ result = [p \in Workers |-> FALSE]
    /\ h_req = [p \in Workers |-> NoHistory]
    /\ faults = 0

\* no function is called
NoCall == [fn |-> "none"]

CallVarsInit == call = NoCall /\ returned = {}

Init == LockVarsInit /\ IngestVarsInit /\ CallVarsInit

----------------------------------------------------------------------------
(* Functions without storage: one call, its arguments drawn at the start *)

\* the call returns value
Return(value) ==
    /\ returned = {}
    /\ returned' = {value}
    /\ UNCHANGED <<lockVars, ingestVars, call>>

\* the fields of an AdapterJob that createSnapshotData reads: content is a
\* set, {} for null
SnapshotJobs ==
    [updated_at : Stamps \cup {NULL}, content : {{}, {""}, {"text"}, {"other text"}},
     title : {"Engineer", "Senior Engineer"}, company_name : {"Acme"},
     location : {{"Remote"}}, first_published : {{1}}, requisition_id : {{}}]

call_SnapshotDue ==
    /\ call.fn = "SnapshotDue"
    /\ Return(SnapshotDue(call.oldSnapshot, call.jobData))

\* the fields of an AdapterJob that generateMetadataHash reads, and its
\* content; a nullable field is a set, {} for null
MetadataJobs ==
    [title : {"Engineer", "Senior Engineer"}, company_name : {"Acme", "Initech"},
     location : {{}, {"Remote"}}, first_published : {{}, {1}},
     updated_at : Stamps \cup {NULL}, requisition_id : {{}, {"R-1"}},
     content : {{"text"}}]

call_generateMetadataHash ==
    /\ call.fn = "generateMetadataHash"
    /\ Return(generateMetadataHash(call.jobData))

\* const HASH_BITS = 64: a fingerprint is a number below 2^64, written here
\* by the set of the positions of its 1-bits
HASH_BITS == 64

BitPositions == 0..(HASH_BITS - 1)

\* the fingerprints of the model: the numbers 2^k - 1 and a few others
Fingerprints ==
    {0..(k - 1) : k \in {0, 1, 10, 11, 63, 64}}
        \cup {{63}, {0, 63}, {i \in BitPositions : i % 2 = 0}}

\* a simhash as stored, contentSimhash.toString(): {bits} is the decimal
\* string of the number with these 1-bits, {} a string that spells no number
SimhashStrings == {{}} \cup {{bits} : bits \in Fingerprints}

\* BigInt(simhash), which throws on a string that spells no number
BigIntThrows(simhash) == simhash = {}

BigInt(simhash) == the(simhash)

\* hash1 ^ hash2
Xor(hash1, hash2) == (hash1 \ hash2) \cup (hash2 \ hash1)

\* while (temp > 0) { if (temp & 1) distance++; temp = temp >> 1; }
\* taken eight turns at a time: eight turns add the number of 1-bits among
\* the lowest eight bits of temp and shift it by eight (turns that would
\* come after temp has become 0 add nothing)
RECURSIVE CountSetBits(_, _)
CountSetBits(temp, distance) ==
    IF temp = {} THEN distance
    ELSE CountSetBits({i - 8 : i \in {j \in temp : j >= 8}},
                      distance + Cardinality({j \in temp : j < 8}))

\* return 64 in the catch
DistanceOnError == 64

simhashHammingDistance(simhash1, simhash2) ==
    IF BigIntThrows(simhash1) \/ BigIntThrows(simhash2) THEN DistanceOnError
    ELSE CountSetBits(Xor(BigInt(simhash1), BigInt(simhash2)), 0)

\* threshold: number = 10
DefaultThreshold == 10

\* a change is significant from the threshold on
isSimhashChangeSignificant_atLeast(oldSimhash, newSimhash, threshold) ==
    simhashHammingDistance(oldSimhash, newSimhash) >= threshold

isSimhashChangeSignificant(oldSimhash, newSimhash, threshold) ==
    simhashHammingDistance(oldSimhash, newSimhash) > threshold

call_simhashHammingDistance ==
    /\ call.fn = "simhashHammingDistance"
    /\ Return(simhashHammingDistance(call.simhash1, call.simhash2))

call_isSimhashChangeSignificant ==
    /\ call.fn = "isSimhashChangeSignificant"
    /\ Return(isSimhashChangeSignificant(call.oldSimhash, call.newSimhash,
                 IF call.threshold = {} THEN DefaultThreshold
                 ELSE the(call.threshold)))
\* the texts of the model: up to MaxTextLen characters, a letter in both
\* cases, a blank and a punctuation mark
Texts == UNION {[1..n -> {"a", "A", " ", "."}] : n \in 0..MaxTextLen}

\* .toLowerCase()
toLowerCase(c) == IF c = "A" THEN "a" ELSE c

\* \w and \s on the characters of the model
IsWordChar(c) == c \in {"a", "A"}

IsWhitespace(c) == c = " "

\* .replace(/[^\w\s]/g, " ")
Unpunctuated(c) == IF IsWordChar(c) \/ IsWhitespace(c) THEN c ELSE " "

\* .split(/\s+/).filter(token => token.length > 0): token is the piece
\* being read, tokens the pieces read so far
RECURSIVE SplitTokens(_, _, _)
SplitTokens(text, token, tokens) ==
    IF text = <<>>
    THEN IF token = <<>> THEN tokens ELSE Append(tokens, token)
    ELSE IF IsWhitespace(Head(text))
         THEN SplitTokens(Tail(text), <<>>,
                          IF token = <<>> THEN tokens ELSE Append(tokens, token))
         ELSE SplitTokens(Tail(text), Append(token, Head(text)), tokens)

Tokenize(text) ==
    SplitTokens([i \in DOMAIN text |-> Unpunctuated(toLowerCase(text[i]))],
                <<>>, <<>>)

\* crypto.createHash("sha256").update(token).digest(): the positions i below
\* HASH_BITS with (hash[Math.floor(i / 8)] >> (i % 8)) & 1 = 1, for the
\* tokens a text of the model can have
Sha256Bits ==
    <<"a">> :>
         {1, 3, 6, 7, 8, 9, 10, 12, 15, 16, 23, 25, 28, 33, 35,
          38, 39, 40, 41, 43, 44, 48, 50, 51, 52, 53, 55, 57, 59,
          62, 63}
      @@
    <<"a", "a">> :>
         {1, 2, 4, 7, 8, 9, 11, 12, 16, 18, 19, 21, 22, 24, 25,
          28, 30, 31, 32, 34, 35, 37, 38, 39, 40, 41, 45, 46, 47,
          48, 49, 51, 54, 55, 57, 58, 59, 63}
      @@
    <<"a", "a", "a">> :>
         {3, 4, 7, 10, 12, 13, 16, 17, 18, 23, 24, 26, 27, 29, 30,
          32, 33, 34, 35, 38, 39, 44, 45, 47, 50, 51, 52, 54, 56,
          60, 61, 63}
      @@
    <<"a", "a", "a", "a">> :>
         {0, 5, 6, 9, 10, 11, 12, 13, 15, 16, 18, 20, 22, 27, 29,
          31, 33, 37, 38, 39, 41, 42, 44, 45, 46, 47, 50, 52, 53,
          55, 56, 61, 62, 63}
      @@
    <<"a", "a", "a", "a", "a">> :>
         {0, 2, 3, 5, 6, 7, 9, 10, 12, 15, 17, 18, 19, 23, 26, 31,
          32, 34, 35, 44, 49, 52, 54, 55, 56, 57, 60, 62, 63}
      @@
    <<"a", "a", "a", "a", "a", "a">> :>
         {0, 2, 3, 5, 6, 7, 9, 16, 18, 22, 24, 25, 27, 28, 29, 30,
          34, 35, 36, 38, 40, 46, 48, 51, 52, 54, 55, 58, 61, 62}

\* weights[i] after the loop over the tokens: +1 for a token whose digest
\* has bit i, -1 for one whose digest has not
RECURSIVE Weight(_, _)
Weight(tokens, i) ==
    IF tokens = <<>> THEN 0
    ELSE (IF i \in Sha256Bits[Head(tokens)] THEN 1 ELSE -1) + Weight(Tail(tokens), i)

\* a bit is set on a tie too
BitIsSet_onTie(weight) == weight >= 0

\* if (weights[i] > 0) simhash |= (BigInt(1) << BigInt(i))
BitIsSet(weight) == weight > 0

\* generateSimhash: BigInt(0), the fingerprint without 1-bits, for a text
\* that is empty, blank or without tokens
generateSimhash(text) ==
    IF text = <<>> \/ \A i \in DOMAIN text : IsWhitespace(text[i]) THEN {}
    ELSE IF Tokenize(text) = <<>> THEN {}
         ELSE {i \in BitPositions : BitIsSet(Weight(Tokenize(text), i))}

call_generateSimhash ==
    /\ call.fn = "generateSimhash"
    /\ Return(generateSimhash(call.text))
\* an update timestamp is a set: {d} the ISO string of midnight of day d,
\* {} a string Date does not parse
UpdateTimestamps == {{}} \cup {{d} : d \in {0, 3, 6, 7, 9, 10}}

\* updateTimestamps?: string[], {} when undefined
TimestampLists ==
    {{}} \cup {{list} : list \in UNION {[1..n -> UpdateTimestamps] : n \in 0..MaxTimestamps}}

\* 1000 * 60 * 60 * 24
MsPerDay == 86400000

\* .map(ts => new Date(ts).getTime()).filter(ts => Number.isFinite(ts)):
\* milliseconds, NaN for a string Date does not parse
RECURSIVE FiniteTimes(_)
FiniteTimes(list) ==
    IF list = <<>> THEN <<>>
    ELSE IF Head(list) = {} THEN FiniteTimes(Tail(list))
         ELSE <<the(Head(list)) * MsPerDay>> \o FiniteTimes(Tail(list))

RECURSIVE Inserted(_, _)
Inserted(sorted, time) ==
    IF sorted = <<>> THEN <<time>>
    ELSE IF time - Head(sorted) < 0 THEN <<time>> \o sorted
         ELSE <<Head(sorted)>> \o Inserted(Tail(sorted), time)

\* the timestamps are left in the order given
SortAscending_skipped(times) == times

\* .sort((a, b) => a - b)
RECURSIVE SortAscending(_)
SortAscending(times) ==
    IF times = <<>> THEN <<>>
    ELSE Inserted(SortAscending(Tail(times)), Head(times))

\* intervals between consecutive updates, in days
Intervals(sorted) ==
    [i \in 1..(Len(sorted) - 1) |-> (sorted[i + 1] - sorted[i]) \div MsPerDay]

RECURSIVE SumOf(_)
SumOf(numbers) == IF numbers = <<>> THEN 0 ELSE Head(numbers) + SumOf(Tail(numbers))

\* Math.sqrt, rounded down to a whole number
Sqrt(x) == CHOOSE r \in 0..2000 : r * r <= x /\ x < (r + 1) * (r + 1)

\* scores are written in thousandths: return 1.0 is 1000
One == 1000

\* return 0.5
Neutral == 500

\* the squared coefficient of variation of the intervals as a fraction
\* <<numerator, denominator>>: with n intervals of sum S, mean = S / n and
\* variance = sum of (val - mean)^2 / n, so variance / mean^2 is the sum of
\* (n * val - S)^2 over n * S^2
VarianceOverSquaredMean(intervals) ==
    LET n == Len(intervals)
        S == SumOf(intervals)
    IN  <<SumOf([i \in DOMAIN intervals |-> (n * intervals[i] - S) * (n * intervals[i] - S)]),
          n * S * S>>

\* the score of the intervals, lines 274-293: the comparisons of the
\* coefficient of variation with 0.2 and 0.5 are made on its square
CadenceOfIntervals(intervals) ==
    LET mean_positive == SumOf(intervals) > 0
        cv2 == VarianceOverSquaredMean(intervals)
    IN  IF ~mean_positive \/ 25 * cv2[1] < cv2[2] THEN 0
        ELSE IF 4 * cv2[1] > cv2[2] THEN One
        ELSE LET coefficientOfVariation == Sqrt((cv2[1] * One * One) \div cv2[2])
                 normalized == ((coefficientOfVariation - 200) * One) \div 300
             IN  IF normalized < 0 THEN 0
                 ELSE IF normalized > One THEN One ELSE normalized

\* three timestamps are enough
TooFew_three(count) == count < 3

\* updateTimestamps.length < 4, sorted.length < 4
TooFew(count) == count < 4

featureUpdateCadence(updateTimestamps) ==
    IF updateTimestamps = {} THEN Neutral
    ELSE IF TooFew(Len(the(updateTimestamps))) THEN Neutral
    ELSE LET sorted == SortAscending(FiniteTimes(the(updateTimestamps)))
         IN  IF TooFew(Len(sorted)) THEN Neutral
             ELSE IF Len(Intervals(sorted)) = 0 THEN Neutral
             ELSE CadenceOfIntervals(Intervals(sorted))

call_featureUpdateCadence ==
    /\ call.fn = "featureUpdateCadence"
    /\ Return(featureUpdateCadence(call.updateTimestamps))

\* DEFAULT_WEIGHTS, in hundredths
DEFAULT_WEIGHTS ==
    [freshness |-> 16, link_integrity |-> 9, salary_disclosure |-> 21,
     salary_min_present |-> 13, source_credibility |-> 9, skills_present |-> 9,
     buzzword_penalty |-> 4, comp_period_clarity |-> 4, update_cadence |-> 5,
     content_change_quality |-> 5]

\* clamp01 on thousandths
clamp01(x) == IF x < 0 THEN 0 ELSE IF x > One THEN One ELSE x

\* the sum of term[k] over the keys of a set
RECURSIVE SumOver(_, _)
SumOver(keys, term) ==
    IF keys = {} THEN 0
    ELSE LET k == CHOOSE x \in keys : TRUE
         IN  term[k] + SumOver(keys \ {k}, term)

\* const w = { ...DEFAULT_WEIGHTS, ...weights }
MergedWeights(weights) ==
    [k \in DOMAIN DEFAULT_WEIGHTS \cup DOMAIN weights |->
        IF k \in DOMAIN weights THEN weights[k] ELSE DEFAULT_WEIGHTS[k]]

\* every signal of the weight table counts, present in the breakdown or not
WeightedKeys_allSignals(breakdown, w) == {k \in DOMAIN w : w[k] > 0}

\* the keys of the breakdown with typeof weight === "number" && weight > 0
WeightedKeys(breakdown, w) == {k \in DOMAIN breakdown \cap DOMAIN w : w[k] > 0}

\* the fallback gives 0
PlainAverage_zero(breakdown) == 0

\* keys.reduce((acc, k) => acc + clamp01(breakdown[k]), 0) / keys.length
PlainAverage(breakdown) ==
    SumOver(DOMAIN breakdown, [k \in DOMAIN breakdown |-> clamp01(breakdown[k])])
        \div Cardinality(DOMAIN breakdown)

\* finalizeScore; the quotients are rounded down to thousandths
finalizeScore(breakdown, weights) ==
    LET w == MergedWeights(weights)
        used == WeightedKeys(breakdown, w)
        sumW == SumOver(used, w)
        sum == SumOver(used \cap DOMAIN breakdown,
                       [k \in used \cap DOMAIN breakdown |-> w[k] * clamp01(breakdown[k])])
    IN  IF sumW > 0 THEN clamp01(sum \div sumW)
        ELSE IF DOMAIN breakdown = {} THEN 0
        ELSE clamp01(PlainAverage(breakdown))

\* the breakdowns finalizeScore is called with: some of three signals and
\* of a key the weight table does not have, with values inside and outside
\* [0, 1]
Breakdowns ==
    UNION {[keys -> {-500, 0, 400, 1000, 1500}] :
              keys \in SUBSET {"freshness", "link_integrity", "update_cadence",
                               "extra_signal"}}

\* weights: the defaults ({} overrides nothing), zero for the three
\* signals, or another weight for one of them
WeightOverrides ==
    {<<>>, [freshness |-> 0, link_integrity |-> 0, update_cadence |-> 0],
     [freshness |-> 50]}

call_finalizeScore ==
    /\ call.fn = "finalizeScore"
    /\ Return(finalizeScore(call.breakdown, call.weights))

\* toDate and daysBetween: a date is a set, {d} for day d and {} for null
\* or a string Date does not parse; the age is in whole days
daysBetween(a, b) == IF a - b < 0 THEN b - a ELSE a - b

featureFreshness(firstPublished, today) ==
    IF firstPublished = {} THEN Neutral
    ELSE LET age == daysBetween(today, the(firstPublished))
             \* Math.min(age / 90, 1), in thousandths
             share == IF age >= 90 THEN One ELSE (age * One) \div 90
         IN  clamp01(One - share)

featureLinkIntegrity(link_ok, link_loop) ==
    IF ~link_ok THEN 0 ELSE IF link_loop THEN 0 ELSE One

\* f.salary_min and f.salary_max are sets: {} when not a number
featureSalaryDisclosure(f) ==
    IF f.salary_min # {} THEN One
    ELSE IF f.salary_max # {} THEN Neutral ELSE 0

featureSalaryMinPresent(f) == IF f.salary_min # {} THEN One ELSE 0

\* hosts are written as their labels: <<"greenhouse", "io">> is greenhouse.io
ATS_HOST_HINTS ==
    {<<"boards", "greenhouse", "io">>, <<"job-boards", "greenhouse", "io">>,
     <<"greenhouse", "io">>, <<"lever", "co">>, <<"myworkdayjobs", "com">>,
     <<"smartrecruiters", "com">>, <<"ashbyhq", "com">>, <<"icims", "com">>}

\* h === s || h.endsWith("." + s) for some s of the set
endsWithHost(h, set) ==
    \E s \in set :
        /\ Len(s) <= Len(h)
        /\ SubSeq(h, Len(h) - Len(s) + 1, Len(h)) = s

\* hostHint.includes("careers.") || hostHint.endsWith(".jobs"), for labels
\* that are whole words
LooksLikeCareers(h) ==
    \/ \E i \in 1..(Len(h) - 1) : h[i] = "careers"
    \/ Len(h) >= 2 /\ h[Len(h)] = "jobs"

\* srcBoost and base in thousandths; hostHint is {} when there is none
featureSourceCredibility(f, hostHint) ==
    LET src == IF f.salary_source = {} THEN "unknown" ELSE the(f.salary_source)
        srcBoost == IF src \in {"metadata", "both"} THEN 100
                    ELSE IF src = "text" THEN -100 ELSE 0
        base == IF hostHint = {} THEN 500
                ELSE IF the(hostHint) \in ATS_HOST_HINTS
                        \/ endsWithHost(the(hostHint), ATS_HOST_HINTS) THEN 900
                ELSE IF LooksLikeCareers(the(hostHint)) THEN 700 ELSE 600
    IN  clamp01(base + srcBoost)

\* analysis is {} when undefined; skills is the number of skills found
featureSkillsPresent(analysis) ==
    IF analysis = {} THEN 0
    ELSE IF the(analysis).skills = 0 THEN 0
    ELSE IF the(analysis).skills >= 5 THEN One ELSE Neutral

\* buzzwords is analysis.buzzwords.count; 1 - buzzwordCount * 0.2
featureBuzzwordPenalty(analysis) ==
    IF analysis = {} THEN One
    ELSE IF the(analysis).buzzwords = 0 THEN One
    ELSE IF the(analysis).buzzwords >= 5 THEN 0
    ELSE One - the(analysis).buzzwords * 200

featureCompPeriodClarity(analysis) ==
    IF analysis = {} THEN Neutral
    ELSE IF the(analysis).comp_period_detected = {} THEN Neutral ELSE One

\* the dampening applied whatever the cadence score
featureContentChangeQuality_dampedWithoutCadence(snapshotData, updateCadenceScore) ==
    IF snapshotData = {} THEN Neutral
    ELSE IF Len(the(snapshotData)) < 2 THEN Neutral
    ELSE
      LET data == the(snapshotData)
          compared == 2..Len(data)
          significantChanges ==
              Cardinality({i \in compared :
                  \/ isSimhashChangeSignificant(data[i - 1].content_simhash,
                        data[i].content_simhash, DefaultThreshold)
                  \/ isSimhashChangeSignificant(data[i - 1].metadata_simhash,
                        data[i].metadata_simhash, DefaultThreshold)})
          totalComparisons == Len(data) - 1
          seenSimhashes ==
              [key \in {data[i].content_simhash : i \in compared}
                          \cup {data[i].metadata_simhash : i \in compared} |->
                  Cardinality({i \in compared : data[i].content_simhash = key})
                    + Cardinality({i \in compared : data[i].metadata_simhash = key})]
          uniqueHashes == Cardinality({key \in DOMAIN seenSimhashes : seenSimhashes[key] = 1})
          duplicated == {key \in DOMAIN seenSimhashes : seenSimhashes[key] # 1}
          duplicateHashes == SumOver(duplicated, seenSimhashes)
          totalHashes == uniqueHashes + duplicateHashes
          changeRatio == (significantChanges * One) \div totalComparisons
          duplicateRatio == IF totalHashes > 0 THEN (duplicateHashes * One) \div totalHashes ELSE 0
          reduced == IF duplicateRatio > 500
                     THEN (changeRatio * (One - duplicateRatio \div 2)) \div One
                     ELSE changeRatio
          baseScore == IF reduced < 300 THEN (reduced * 8) \div 10 ELSE reduced
      IN  clamp01(baseScore)

\* featureContentChangeQuality: snapshotData and updateCadenceScore are {}
\* when undefined; the ratios are in thousandths, rounded down
featureContentChangeQuality(snapshotData, updateCadenceScore) ==
    IF snapshotData = {} THEN Neutral
    ELSE IF Len(the(snapshotData)) < 2 THEN Neutral
    ELSE
      LET data == the(snapshotData)
          compared == 2..Len(data)
          significantChanges ==
              Cardinality({i \in compared :
                  \/ isSimhashChangeSignificant(data[i - 1].content_simhash,
                        data[i].content_simhash, DefaultThreshold)
                  \/ isSimhashChangeSignificant(data[i - 1].metadata_simhash,
                        data[i].metadata_simhash, DefaultThreshold)})
          totalComparisons == Len(data) - 1
          seenSimhashes ==
              [key \in {data[i].content_simhash : i \in compared}
                          \cup {data[i].metadata_simhash : i \in compared} |->
                  Cardinality({i \in compared : data[i].content_simhash = key})
                    + Cardinality({i \in compared : data[i].metadata_simhash = key})]
          uniqueHashes == Cardinality({key \in DOMAIN seenSimhashes : seenSimhashes[key] = 1})
          duplicated == {key \in DOMAIN seenSimhashes : seenSimhashes[key] # 1}
          duplicateHashes == SumOver(duplicated, seenSimhashes)
          totalHashes == uniqueHashes + duplicateHashes
          changeRatio == (significantChanges * One) \div totalComparisons
          duplicateRatio == IF totalHashes > 0 THEN (duplicateHashes * One) \div totalHashes ELSE 0
          reduced == IF duplicateRatio > 500
                     THEN (changeRatio * (One - duplicateRatio \div 2)) \div One
                     ELSE changeRatio
          baseScore == IF updateCadenceScore # {} /\ (\A c \in updateCadenceScore : c < 300)
                          /\ reduced < 300
                       THEN (reduced * 8) \div 10 ELSE reduced
      IN  clamp01(baseScore)

\* the histories featureContentChangeQuality is called with: up to
\* MaxHistory snapshots whose fingerprints are 0, 2^10 - 1 and 2^11 - 1
SnapshotHistories ==
    UNION {[1..n -> [content_simhash : {{{}}, {0..9}, {0..10}},
                     metadata_simhash : {{{}}, {0..10}}]] : n \in 0..MaxHistory}

call_featureContentChangeQuality ==
    /\ call.fn = "featureContentChangeQuality"
    /\ Return(featureContentChangeQuality(call.snapshotData, call.updateCadenceScore))

\* scoreJob with the default weights: the breakdown and the score
scoreJob(input) ==
    LET updateCadenceScore ==
            IF input.update_cadence_data = {} THEN {}
            ELSE {featureUpdateCadence(input.update_cadence_data)}
        always ==
            [freshness |-> featureFreshness(
                              IF input.first_published # {} THEN input.first_published
                              ELSE input.updated_at, input.today),
             link_integrity |-> featureLinkIntegrity(input.link_ok, input.link_loop),
             salary_disclosure |-> featureSalaryDisclosure(input.features),
             salary_min_present |-> featureSalaryMinPresent(input.features),
             source_credibility |-> featureSourceCredibility(input.features, input.host_hint),
             skills_present |-> featureSkillsPresent(input.nlp_analysis),
             buzzword_penalty |-> featureBuzzwordPenalty(input.nlp_analysis),
             comp_period_clarity |-> featureCompPeriodClarity(input.nlp_analysis)]
        cadence == IF updateCadenceScore = {} THEN <<>>
                   ELSE [update_cadence |-> the(updateCadenceScore)]
        quality == IF input.snapshot_data = {} THEN <<>>
                   ELSE [content_change_quality |->
                            featureContentChangeQuality(input.snapshot_data, updateCadenceScore)]
        breakdown == always @@ cadence @@ quality
    IN  [score |-> finalizeScore(breakdown, <<>>), breakdown |-> breakdown]

\* the inputs scoreJob is called with: one input, and the inputs that differ
\* from it in one group of fields
PlainInput ==
    [today |-> ScoringDay, first_published |-> {ScoringDay - 9}, updated_at |-> {},
     link_ok |-> TRUE, link_loop |-> FALSE,
     features |-> [salary_min |-> {}, salary_max |-> {}, salary_source |-> {}],
     host_hint |-> {},
     nlp_analysis |-> {[skills |-> 3, buzzwords |-> 1, comp_period_detected |-> {}]},
     update_cadence_data |-> {}, snapshot_data |-> {}]

ScoreJobInputs ==
    {[PlainInput EXCEPT !.first_published = f, !.updated_at = u] :
        f \in {{}, {ScoringDay + 5}, {ScoringDay - 200}}, u \in {{}, {ScoringDay - 45}}}
    \cup {[PlainInput EXCEPT !.link_ok = ok, !.link_loop = loop] :
             ok \in BOOLEAN, loop \in BOOLEAN}
    \cup {[PlainInput EXCEPT !.features = f, !.host_hint = h] :
             f \in [salary_min : {{}, {50000}}, salary_max : {{}, {90000}},
                    salary_source : {{}, {"metadata"}, {"text"}}],
             h \in {{}, {<<"acme", "greenhouse", "io">>}, {<<"lever", "co">>},
                    {<<"careers", "acme", "com">>}, {<<"acme", "jobs">>},
                    {<<"acme", "com">>}}}
    \cup {[PlainInput EXCEPT !.nlp_analysis = a] :
             a \in {{}} \cup {{n} : n \in [skills : {0, 3, 5}, buzzwords : {-1, 0, 2, 4, 5, 7},
                                          comp_period_detected : {{}, {"year"}}]}}
    \cup {[PlainInput EXCEPT !.update_cadence_data = c, !.snapshot_data = s] :
             c \in {{}, {<<>>}, {<<{0}, {3}, {6}, {9}>>}, {<<{0}, {9}, {10}, {10}>>}},
             s \in {{}} \cup {{d} : d \in UNION {[1..n -> [content_simhash : {{0..9}, {0..20}, {}},
                                                   metadata_simhash : {{0..9}, {{}}}]] :
                                         n \in 1..3}}}

call_scoreJob ==
    /\ call.fn = "scoreJob"
    /\ Return(scoreJob(call.input))

\* the tier analyzeJob derives from the score, with the lower threshold
\* belonging to the tier below it
TierOf_thresholdIncluded(score) ==
    IF score <= 400 THEN "High" ELSE IF score < 700 THEN "Medium" ELSE "Low"

\* score < 0.4 ? "High" : score < 0.7 ? "Medium" : "Low", in thousandths
TierOf(score) ==
    IF score < 400 THEN "High" ELSE IF score < 700 THEN "Medium" ELSE "Low"

\* the scores finalizeScore can return
Scores == 0..One

call_TierOf ==
    /\ call.fn = "TierOf"
    /\ Return(TierOf(call.score))

\* the messages of generateRecommendations
Msg ==
    [noGhosts |->
        "No ghosts detected! This looks like a legitimate opportunity.",
     salaryUnclear |->
        "This posting has unclear compensation details. Ask about salary ranges during the interview.",
     salaryRange |->
        "Ask about the salary range during the interview.",
     salaryMin |->
        "No stated minimum salary may be intentionally vague, depending on the nature of the job.",
     vague |->
        "Consider asking clarifying questions about the role and requirements - the description may be vague.",
     skills |->
        "Ask for a detailed job description with specific technical requirements.",
     buzzwords |->
        "Seek concrete expectations and responsibilities beyond generic phrases.",
     cadenceRefreshStale |->
        "This job refreshes in a predictable pattern with no significant content changes, and it is a stale posting. These three signals combined strongly indicate automated efforts to make a ghost job appear active.",
     cadenceRefresh |->
        "This job refreshes in a predictable pattern with no significant content changes. These two signals combined indicate automated efforts to make a ghost job appear active.",
     cadenceStale |->
        "This job is both stale and refreshes in a predictable pattern. These two signals combined is a stronger signal of automated efforts to make a ghost job appear active.",
     refreshStale |->
        "This job refreshes without significant content changes and is a stale posting. This pattern suggests the job may be reposted to appear active without real updates.",
     stale |->
        "This posting may be stale. Verify the position is still actively hiring (posted >30 days ago).",
     cadence |->
        "This job refreshes in a predictable pattern, which could indicate automated efforts to make a ghost job appear active.",
     refresh |->
        "This job refreshes without significant content changes, which could indicate automated reposting to make a ghost job appear active."]

\* a red flag that includes the value 0.5
Flagged_atHalf(breakdown, flag) ==
    flag \in DOMAIN breakdown /\ breakdown[flag] <= Neutral

\* breakdown[flag] < 0.5; false when the breakdown has no such key
Flagged(breakdown, flag) ==
    flag \in DOMAIN breakdown /\ breakdown[flag] < Neutral

\* recommendations.push(message) when the condition holds
PushIf(condition, message) == IF condition THEN <<message>> ELSE <<>>

generateRecommendations(breakdown) ==
    LET hasRedFlags == \E k \in DOMAIN breakdown : Flagged(breakdown, k)
        salary == Flagged(breakdown, "salary_disclosure")
        salaryMin == Flagged(breakdown, "salary_min_present")
        skills == Flagged(breakdown, "skills_present")
        buzzwords == Flagged(breakdown, "buzzword_penalty")
        hasPredictableCadence == Flagged(breakdown, "update_cadence")
        hasStaleRefreshPattern == Flagged(breakdown, "content_change_quality")
        hasStalePosting == Flagged(breakdown, "freshness")
        salaryPart == IF salary /\ salaryMin THEN <<Msg.salaryUnclear>>
                      ELSE PushIf(salary, Msg.salaryRange) \o PushIf(salaryMin, Msg.salaryMin)
        nlpPart == IF skills /\ buzzwords THEN <<Msg.vague>>
                   ELSE PushIf(skills, Msg.skills) \o PushIf(buzzwords, Msg.buzzwords)
        cadencePart ==
            IF hasPredictableCadence /\ hasStaleRefreshPattern /\ hasStalePosting
            THEN <<Msg.cadenceRefreshStale>>
            ELSE IF hasPredictableCadence /\ hasStaleRefreshPattern THEN <<Msg.cadenceRefresh>>
            ELSE IF hasPredictableCadence /\ hasStalePosting THEN <<Msg.cadenceStale>>
            ELSE IF hasStaleRefreshPattern /\ hasStalePosting THEN <<Msg.refreshStale>>
            ELSE PushIf(hasStalePosting, Msg.stale)
                    \o PushIf(hasPredictableCadence, Msg.cadence)
                    \o PushIf(hasStaleRefreshPattern, Msg.refresh)
    IN  IF ~hasRedFlags THEN <<Msg.noGhosts>>
        ELSE salaryPart \o nlpPart \o cadencePart

\* the breakdowns scoreJob can return: eight signals always, two when their
\* data was given; 0.4 is a red flag, 0.5 is not
ScoredBreakdowns ==
    UNION {[{"freshness", "link_integrity", "salary_disclosure", "salary_min_present",
             "source_credibility", "skills_present", "buzzword_penalty",
             "comp_period_clarity"} \cup optional -> {400, Neutral}] :
              optional \in SUBSET {"update_cadence", "content_change_quality"}}

call_generateRecommendations ==
    /\ call.fn = "generateRecommendations"
    /\ Return(generateRecommendations(call.breakdown))


\* the calls: a function and its arguments. The snapshot decision is made on
\* the latest snapshot of a job ({} when it has none), made by
\* createSnapshotData of an earlier posting, and the posting that comes in;
\* threshold is a set, {} when the argument is left out
Calls ==
    [fn : {"SnapshotDue"},
     oldSnapshot : {{}} \cup {{dbJobSnapshot(1, job)} : job \in SnapshotJobs},
     jobData : SnapshotJobs]
    \cup [fn : {"simhashHammingDistance"}, simhash1 : SimhashStrings,
          simhash2 : SimhashStrings]
    \cup [fn : {"isSimhashChangeSignificant"}, oldSimhash : SimhashStrings,
          newSimhash : SimhashStrings,
          threshold : {{}} \cup {{t} : t \in {0, 9, 10, 11, 63, 64}}]
    \cup [fn : {"generateSimhash"}, text : Texts]
    \cup [fn : {"featureUpdateCadence"}, updateTimestamps : TimestampLists]
    \cup [fn : {"finalizeScore"}, breakdown : Breakdowns, weights : WeightOverrides]
    \cup [fn : {"scoreJob"}, input : ScoreJobInputs]
    \cup [fn : {"TierOf"}, score : Scores]
    \cup [fn : {"generateRecommendations"}, breakdown : ScoredBreakdowns]
    \cup [fn : {"generateMetadataHash"}, jobData : MetadataJobs]
    \cup [fn : {"featureContentChangeQuality"},
          snapshotData : {{}} \cup {{data} : data \in SnapshotHistories},
          updateCadenceScore : {{}, {0}, {299}, {300}, {One}}]

FunctionsInit ==
    /\ LockVarsInit
    /\ IngestVarsInit
    /\ call \in Calls
    /\ returned = {}

----------------------------------------------------------------------------
(* Specifications *)

\* the admission controller, its calls one at a time
LockNext ==
    \/ \E p \in Callers, u \in Users, ok \in BOOLEAN :
          NoCallInFlight /\ request_lock_and_tokens_select(p, u, ok)
    \/ \E p \in Callers, ok \in BOOLEAN : request_lock_and_tokens_insert(p, ok)
    \/ \E p \in Callers, u \in Users, ok \in BOOLEAN :
          NoCallInFlight /\ set_request_lock_flip(p, u, ok)
    \/ \E p \in Callers, ok \in BOOLEAN : set_request_lock_decrement(p, ok)
    \/ \E p \in Callers, ok \in BOOLEAN : set_request_lock_compensate(p, ok)
    \/ \E p \in Callers, u \in Users, ok \in BOOLEAN :
          NoCallInFlight /\ release_request_lock(p, u, ok)

SpecLock == Init /\ [][LockNext]_vars

\* the user whose calls race
Racer == CHOOSE u \in Users : TRUE

\* calls of several callers for one user with their storage calls
\* interleaved: a call may start while others are in flight. Every write
\* may fail; a failed select or flip writes nothing and ends its call, and
\* is left out
LockRaceNext ==
    \/ \E p \in Callers : request_lock_and_tokens_select(p, Racer, TRUE)
    \/ \E p \in Callers, ok \in BOOLEAN : request_lock_and_tokens_insert(p, ok)
    \/ \E p \in Callers : set_request_lock_flip(p, Racer, TRUE)
    \/ \E p \in Callers, ok \in BOOLEAN : set_request_lock_decrement(p, ok)
    \/ \E p \in Callers, ok \in BOOLEAN : set_request_lock_compensate(p, ok)
    \/ \E p \in Callers, ok \in BOOLEAN : release_request_lock(p, Racer, ok)

SpecLockRace == Init /\ [][LockRaceNext]_vars

\* the steps of the request of worker p after its first; Oks are the
\* outcomes of a call: {TRUE, FALSE} where calls may fail
analyzeJob_continue(p, Oks) ==
    \/ \E ok \in Oks : InsertToJobUpdatesTable_select(p, ok)
    \/ \E ok \in Oks : InsertToJobUpdatesTable_insert(p, ok)
    \/ \E ok \in Oks : InsertToJobUpdatesTable_last_seen(p, ok)
    \/ \E ok \in Oks, seen \in {NULL, now} : insertIntoJobTable(p, ok, seen)
    \/ \E ok \in Oks : analyzeJob_first_update(p, ok)
    \/ \E ok \in Oks, nlp \in Oks : InsertStructuredJobFeatures(p, nlp, ok)
    \/ \E ok \in Oks : analyzeJob_latest_snapshot(p, ok)
    \/ \E ok \in Oks : createJobSnapshot(p, ok)
    \/ \E llm \in Oks : analyzeJob_score(p, llm)
    \/ analyzeJob_return(p)

\* requests one after the other; which worker serves them makes no
\* difference, so one serves them all
Server == CHOOSE w \in Workers : TRUE

IngestNext ==
    \/ Tick
    \/ \E parsed \in ParsedUrls, ok \in BOOLEAN :
          MayStart /\ analyzeJob_unreachable(Server, parsed, ok)
    \/ \E job \in ScrapedJobs, ok \in BOOLEAN :
          MayStart /\ analyzeJob_lookup(Server, job, ok)
    \/ \E ok \in BOOLEAN : analyzeJob_mark_inactive(Server, ok)
    \/ analyzeJob_continue(Server, BOOLEAN)

SpecIngest == Init /\ [][IngestNext]_vars

\* the postings of the greenhouse boards
BoardJobs == {job \in ScrapedJobs : job.ats_provider = "greenhouse"}

\* requests of several workers with their storage calls interleaved, at
\* one instant and with every call succeeding
RaceNext ==
    \/ \E p \in Workers, job \in BoardJobs :
          LogsHaveRoom /\ analyzeJob_lookup(p, job, TRUE)
    \/ \E p \in Workers : analyzeJob_continue(p, {TRUE})

SpecRace == Init /\ [][RaceNext]_vars

\* what scrapeJobFromUrl may return: an AdapterJob of either provider, with
\* any of the fields validateJobPosting reads present or absent
FetchedJobs ==
    {job \in AdapterJobs : \E fields \in Presence : job.valid = validateJobPosting(fields)}

\* requests one after the other at one instant, every call succeeding, for
\* every posting the fetch may return
FetchNext ==
    \/ \E job \in FetchedJobs : MayStart /\ analyzeJob_lookup(Server, job, TRUE)
    \/ analyzeJob_continue(Server, {TRUE})

SpecFetch == Init /\ [][FetchNext]_vars

\* one call of a function that touches no table
FunctionsNext ==
    \/ call_SnapshotDue
    \/ call_simhashHammingDistance
    \/ call_isSimhashChangeSignificant
    \/ call_generateSimhash
    \/ call_featureUpdateCadence
    \/ call_finalizeScore
    \/ call_scoreJob
    \/ call_TierOf
    \/ call_generateRecommendations
    \/ call_generateMetadataHash
    \/ call_featureContentChangeQuality

SpecFunctions == FunctionsInit /\ [][FunctionsNext]_vars

----------------------------------------------------------------------------
(* Admission controller: properties *)

SetCalls == {i \in DOMAIN h_lcalls : h_lcalls[i].op = "set"}
Granted == {i \in SetCalls : h_lcalls[i].res = "true"}
Releases == {i \in DOMAIN h_lcalls : h_lcalls[i].op = "release"}
Requests == {i \in DOMAIN h_lcalls : h_lcalls[i].op = "request"}

\* C1: set_request_lock returns true only for a user whose row, when the
\* call starts, has is_available = true and tokens_remaining > 0.
C1_GrantNeedsAvailableAndToken ==
    \A i \in Granted :
        /\ h_lcalls[i].pre # {}
        /\ \A r \in h_lcalls[i].pre : r.is_available /\ r.tokens_remaining > 0

\* C2: every row of request_lock has tokens_remaining >= 0.
C2_TokensNeverNegative ==
    \A r \in request_lock : r.tokens_remaining >= 0

\* C3: a granted set_request_lock that no other call interleaves with leaves
\* the user's row with is_available = false and one token fewer than before
\* the call, and leaves the rows of the other users as they were.
C3_GrantFlipsAndTakesOneToken ==
    \A i \in Granted :
        /\ Cardinality(h_lcalls[i].pre) = 1
        /\ \A r \in h_lcalls[i].pre :
              h_lcalls[i].post =
                  {[user_id |-> h_lcalls[i].user, is_available |-> FALSE,
                    tokens_remaining |-> r.tokens_remaining - 1]}
        /\ h_lcalls[i].frame

C3_Witness ==
    \E i \in Granted :
        \E r \in h_lcalls[i].pre :
            /\ r.tokens_remaining = 2
            /\ \E o \in request_lock : o.user_id # h_lcalls[i].user

\* C4: a release_request_lock whose update is applied leaves the user's row
\* with is_available = true whatever it was, with the token count it had,
\* creates no row and changes no other user's row; hence a granted
\* set_request_lock directly followed by the release of the same user ends with
\* is_available = true and one token fewer than before the acquire.
C4_ReleaseOpensAndKeepsTokens ==
    /\ \A i \in Releases :
          h_lcalls[i].res = "done" =>
              /\ h_lcalls[i].post =
                     {[user_id |-> r.user_id, is_available |-> TRUE,
                       tokens_remaining |-> r.tokens_remaining] : r \in h_lcalls[i].pre}
              /\ h_lcalls[i].frame
    /\ (/\ Len(h_lcalls) = 2
        /\ 1 \in Granted
        /\ 2 \in Releases
        /\ h_lcalls[2].res = "done"
        /\ h_lcalls[2].user = h_lcalls[1].user)
       => \A r \in h_lcalls[1].pre :
              h_lcalls[2].post =
                  {[user_id |-> r.user_id, is_available |-> TRUE,
                    tokens_remaining |-> r.tokens_remaining - 1]}

C4_Witness ==
    /\ Len(h_lcalls) = 2
    /\ 1 \in Granted
    /\ 2 \in Releases
    /\ h_lcalls[2].res = "done"
    /\ h_lcalls[2].user = h_lcalls[1].user
    /\ \E r \in h_lcalls[2].pre : ~r.is_available

\* C5: when the decrement of set_request_lock fails after its flip closed
\* the lock, the call ends by throwing, and once the compensating update is
\* applied the row is back to is_available = true with the token count it
\* had before the call.
C5_FailedDecrementIsCompensated ==
    \A i \in SetCalls :
        h_lcalls[i].res = "throw_dec" =>
            /\ h_lcalls[i].post = h_lcalls[i].pre
            /\ \A r \in h_lcalls[i].post : r.is_available
            /\ h_lcalls[i].post # {}

C5_Witness ==
    \E i \in SetCalls :
        /\ h_lcalls[i].res = "throw_dec"
        /\ \E r \in h_lcalls[i].post : r.tokens_remaining = 1

\* C6: request_lock_and_tokens creates, for a user without a row, exactly
\* one row with is_available = true and tokens_remaining = 3, and for a user
\* with a row it writes nothing; either way the values returned are those
\* of the user's row after the call.
C6_RequestCreatesInitialRowOnce ==
    \A i \in Requests :
        /\ h_lcalls[i].res = "created" =>
              /\ h_lcalls[i].pre = {}
              /\ h_lcalls[i].post =
                     {[user_id |-> h_lcalls[i].user, is_available |-> TRUE,
                       tokens_remaining |-> 3]}
              /\ h_lcalls[i].frame
        /\ h_lcalls[i].res = "row" =>
              /\ Cardinality(h_lcalls[i].pre) = 1
              /\ h_lcalls[i].post = h_lcalls[i].pre
              /\ h_lcalls[i].frame

C6_Witness ==
    /\ Len(h_lcalls) = 2
    /\ h_lcalls[1].op = "request" /\ h_lcalls[1].res = "created"
    /\ h_lcalls[2].op = "request" /\ h_lcalls[2].res = "row"
    /\ h_lcalls[2].user = h_lcalls[1].user

----------------------------------------------------------------------------
(* Job cache and snapshot engine: properties *)

\* snapshots of job id
SnapshotsOf(id) == {k \in DOMAIN job_snapshots : job_snapshots[k].job_id = id}

\* the request of p went past the lookup of a greenhouse posting
Ingesting(p) == h_req[p].path \in {"hit", "refresh", "new"}

\* the request of p re-ingests (no cache hit) a job it found, with the
\* updated_at that the row of jobs had
ReingestsUnchanged(p) ==
    /\ h_req[p].path = "refresh"
    /\ \E r \in h_req[p].was : r.updated_at = the(adapterJob[p]).updated_at

\* C7: a request for a greenhouse posting takes the cache-hit path only
\* when, at its lookup, a row of jobs has the composite key, job_features has
\* a row for it and now - last_seen < 24 hours with last_seen not null; it
\* takes that path whenever this is so and the lookup succeeds; and on the
\* cache-hit path it writes no row of jobs, job_features, job_updates or
\* job_snapshots.
C7_CacheHitExactlyWhenFresh ==
    \A p \in Workers :
        LET h == h_req[p]
            cached == /\ h.found # {}
                      /\ h.featured
                      /\ \E r \in h.was : r.last_seen # NULL /\ now - r.last_seen < 24
        IN  Ingesting(p) =>
                /\ h.path = "hit" => cached
                /\ cached /\ "lookup" \notin h.failed => h.path = "hit"
                /\ h.path = "hit" => h.wrote = NoWrites

C7_Witness ==
    \E p \in Workers :
        /\ h_req[p].path = "hit"
        /\ apc[p] = "done"
        /\ result[p]
        /\ \E r \in h_req[p].was : r.last_seen < now

\* C8: no two rows of jobs have the same (ats, tenant_slug,
\* external_job_id), also when requests run side by side; the id a request
\* gets from its upsert is the id of the row with its key, and is the id the
\* lookup found when it found one.
C8_OneRecordPerKey ==
    /\ \A i, j \in DOMAIN jobs :
          KeyMatches(jobs[j], jobs[i].ats, jobs[i].tenant_slug,
                     jobs[i].external_job_id) => i = j
    /\ \A p \in Workers :
          Ingesting(p) /\ jobId[p] # 0 =>
              /\ jobId[p] \in DOMAIN jobs
              /\ KeyMatches(jobs[jobId[p]], the(adapterJob[p]).ats_provider,
                            the(adapterJob[p]).tenant_slug,
                            the(adapterJob[p]).external_job_id)
              /\ h_req[p].found # {} => jobId[p] \in h_req[p].found

C8_Witness ==
    \E p, q \in Workers :
        /\ p # q
        /\ h_req[p].path = "new" /\ h_req[p].found = {}
        /\ h_req[q].path = "new" /\ h_req[q].found = {}
        /\ jobId[p] # 0
        /\ jobId[q] = jobId[p]

\* C9: when a request for a greenhouse posting that has no row of jobs
\* ends with success and none of its calls has failed, job_snapshots has
\* exactly one row for the job it created.
C9_FirstIngestLeavesOneSnapshot ==
    \A p \in Workers :
        (/\ h_req[p].path = "new"
         /\ h_req[p].found = {}
         /\ h_req[p].failed = {}
         /\ apc[p] = "done"
         /\ result[p])
        => /\ Cardinality(SnapshotsOf(jobId[p])) = 1
           /\ h_req[p].wrote.job_snapshots = 1

C9_Witness ==
    \E p \in Workers :
        /\ h_req[p].path = "new"
        /\ h_req[p].found = {}
        /\ h_req[p].failed = {}
        /\ apc[p] = "done"
        /\ result[p]
        /\ the(adapterJob[p]).updated_at # NULL

\* C10, as stated: a request that re-ingests an existing job with the
\* updated_at the row of jobs had, and none of whose calls fails, adds no row
\* to job_snapshots and no row to job_updates.
C10_UnchangedAddsNothing ==
    \A p \in Workers :
        ReingestsUnchanged(p) /\ h_req[p].failed = {} =>
            /\ h_req[p].wrote.job_updates = 0
            /\ h_req[p].wrote.job_snapshots = 0

\* C10, amended: a request that re-ingests an existing job with the
\* updated_at the row of jobs had adds no row to job_updates; it adds no row
\* to job_snapshots when the latest snapshot of the job has that updated_at
\* and is read; when the job has no snapshot or its latest snapshot has
\* another updated_at (an earlier request failed midway), a request that
\* succeeds with no failed call adds exactly one row to job_snapshots.
C10_UnchangedAddsNoUpdateAndGatedSnapshot ==
    \A p \in Workers :
        ReingestsUnchanged(p) =>
            LET h == h_req[p]
                agrees == h.snapped = {the(adapterJob[p]).updated_at}
            IN  /\ h.wrote.job_updates = 0
                /\ agrees /\ "snap_latest" \notin h.failed => h.wrote.job_snapshots = 0
                /\ (~agrees /\ h.failed = {} /\ apc[p] = "done" /\ result[p])
                   => h.wrote.job_snapshots = 1

C10_Witness ==
    \E p \in Workers :
        /\ ReingestsUnchanged(p)
        /\ the(adapterJob[p]).updated_at # NULL
        /\ h_req[p].snapped = {the(adapterJob[p]).updated_at}
        /\ h_req[p].failed = {}
        /\ apc[p] = "done"
        /\ result[p]

\* the request of p re-ingests (no cache hit) a job it found, with an
\* updated_at that denotes a later instant than the one the row of jobs had
ReingestsNewer(p) ==
    /\ h_req[p].path = "refresh"
    /\ the(adapterJob[p]).updated_at # NULL
    /\ \E r \in h_req[p].was :
          /\ r.updated_at # NULL
          /\ GetTime(the(adapterJob[p]).updated_at) > GetTime(r.updated_at)

\* the request of p has run to its end with success and no failed call
Completed(p) ==
    /\ h_req[p].failed = {}
    /\ apc[p] = "done"
    /\ result[p]

\* C11, as stated: a completed request that re-ingests an existing job with
\* an updated_at strictly newer than the one the row of jobs had has added
\* exactly one row to job_snapshots and exactly one row to job_updates.
C11_NewerAddsOneOfEach ==
    \A p \in Workers :
        ReingestsNewer(p) /\ Completed(p) =>
            /\ h_req[p].wrote.job_updates = 1
            /\ h_req[p].wrote.job_snapshots = 1

\* C11, amended: such a request has added exactly one row to job_updates;
\* it has added exactly one row to job_snapshots unless the latest snapshot
\* of the job already has the incoming updated_at (the row of jobs and the
\* snapshot log disagree after a request whose snapshot insert failed), and
\* then it has added none.
C11_NewerAddsOneUpdateAndGatedSnapshot ==
    \A p \in Workers :
        ReingestsNewer(p) /\ Completed(p) =>
            /\ h_req[p].wrote.job_updates = 1
            /\ h_req[p].wrote.job_snapshots =
                  IF h_req[p].snapped = {the(adapterJob[p]).updated_at} THEN 0 ELSE 1

C11_Witness ==
    \E p \in Workers :
        /\ ReingestsNewer(p)
        /\ Completed(p)
        /\ h_req[p].snapped # {}
        /\ h_req[p].snapped # {the(adapterJob[p]).updated_at}
        /\ Len(job_snapshots) = 2

\* the request of p is inside InsertToJobUpdatesTable
DecidingUpdate(p) == apc[p] \in {"upd_select", "upd_insert", "upd_seen"}

\* C12: in a request that re-ingests an existing job, while
\* InsertToJobUpdatesTable runs the upsert of the request has not happened
\* (it has no jobId yet and the row of jobs still has the updated_at it had
\* at the lookup), and the stored updated_at that the update decision has
\* compared with is the one the row had at the lookup, not the incoming one
\* that the upsert writes.
C12_UpdateDecisionBeforeUpsert ==
    \A p \in Workers :
        h_req[p].path = "refresh" =>
            /\ DecidingUpdate(p) =>
                  /\ jobId[p] = 0
                  /\ {jobs[i].updated_at : i \in h_req[p].found}
                        = {r.updated_at : r \in h_req[p].was}
            /\ h_req[p].compared # {} =>
                  h_req[p].compared = {r.updated_at : r \in h_req[p].was}

C12_Witness ==
    \E p \in Workers :
        /\ h_req[p].path = "refresh"
        /\ jobId[p] # 0
        /\ h_req[p].compared # {}
        /\ h_req[p].compared # {the(adapterJob[p]).updated_at}
        /\ h_req[p].wrote.job_updates = 1
        /\ jobs[jobId[p]].updated_at = the(adapterJob[p]).updated_at

\* C13: no two rows of job_updates of one job carry the same
\* ats_updated_at.
C13_NoDuplicateUpdateEvents ==
    \A k, l \in DOMAIN job_updates :
        /\ job_updates[k].job_id = job_updates[l].job_id
        /\ job_updates[k].ats_updated_at = job_updates[l].ats_updated_at
        => k = l

\* the request of p is one whose fetch yielded nothing, for a url whose key
\* has a row of jobs, and it has come to its end with no failed call
UnreachableExisting(p) ==
    /\ h_req[p].path = "unreachable"
    /\ h_req[p].found # {}
    /\ apc[p] = "done"
    /\ h_req[p].failed = {}

\* C14: when the fetch yields nothing for a url whose composite key has a
\* row of jobs, the request leaves that row with is_active = false and
\* last_seen = now and otherwise as it was, returns failure, and has
\* written no row of job_snapshots, job_updates or job_features.
C14_UnreachableMarksInactive ==
    \A p \in Workers :
        UnreachableExisting(p) =>
            /\ \A i \in h_req[p].found :
                  \E r \in h_req[p].was :
                      jobs[i] = [r EXCEPT !.is_active = FALSE, !.last_seen = now]
            /\ result[p] = FALSE
            /\ h_req[p].wrote = [NoWrites EXCEPT !.jobs = 1]

C14_Witness ==
    \E p \in Workers :
        /\ UnreachableExisting(p)
        /\ \E r \in h_req[p].was : r.is_active /\ r.last_seen # now
        /\ job_features # {}
        /\ job_snapshots # <<>>

\* the request of p is for a posting of a provider other than greenhouse
Untracked(p) == h_req[p].path \in {"web", "rejected"}

\* C15: no step of a request for a posting of a provider other than
\* greenhouse, accepted or rejected, changes jobs, job_features,
\* job_updates or job_snapshots, and such a request has counted no write.
C15_UntrackedWritesNothing ==
    [][\A p \in Workers :
          Untracked(p)' =>
              /\ UNCHANGED tables
              /\ h_req'[p].wrote = NoWrites]_vars

C15_Witness ==
    \E p \in Workers :
        /\ h_req[p].path = "web"
        /\ apc[p] = "done"
        /\ result[p]
        /\ jobs # <<>>

C15_RejectedWitness ==
    \E p \in Workers : h_req[p].path = "rejected" /\ apc[p] = "done" /\ ~result[p]

----------------------------------------------------------------------------
(* Functions without storage: properties *)

\* C16: for a job that has a latest snapshot, a new snapshot is due exactly
\* when the incoming updated_at and the ats_updated_at of that snapshot are
\* not the same value (null and a value differ, null and null do not),
\* whatever the content and metadata hashes of the two are.
C16_SnapshotDueOnUpdatedAtOnly ==
    call.fn = "SnapshotDue" /\ call.oldSnapshot # {} /\ returned # {} =>
        returned = {the(call.oldSnapshot).ats_updated_at # call.jobData.updated_at}

C16_Witness ==
    /\ call.fn = "SnapshotDue"
    /\ call.oldSnapshot # {}
    /\ the(call.oldSnapshot).ats_updated_at = call.jobData.updated_at
    /\ hasContentChanged(the(call.oldSnapshot), dbJobSnapshot(1, call.jobData))
    /\ returned = {FALSE}

C16_NullWitness ==
    /\ call.fn = "SnapshotDue"
    /\ call.oldSnapshot # {}
    /\ the(call.oldSnapshot).ats_updated_at = NULL
    /\ call.jobData.updated_at # NULL
    /\ returned = {TRUE}

\* the positions where the fingerprints of two simhash strings differ
DifferingBits(simhash1, simhash2) ==
    {i \in BitPositions : (i \in the(simhash1)) # (i \in the(simhash2))}

\* the call in the state is of fn, on two strings that spell fingerprints,
\* and has returned
ReturnedOnFingerprints(fn, simhash1, simhash2) ==
    /\ call.fn = fn
    /\ simhash1 # {}
    /\ simhash2 # {}
    /\ returned # {}

\* C17: the distance of two fingerprints is the number of positions where
\* they differ (so at most 64, 0 for equal ones, and the same in either
\* order), and isSimhashChangeSignificant is true exactly when that number
\* is greater than the threshold, which is 10 when it is left out.
C17_DistanceIsPopcountAndSignificantAbove ==
    /\ call.fn = "simhashHammingDistance" =>
          (ReturnedOnFingerprints(call.fn, call.simhash1, call.simhash2) =>
              /\ returned = {Cardinality(DifferingBits(call.simhash1, call.simhash2))}
              /\ the(returned) \in 0..64
              /\ call.simhash1 = call.simhash2 => returned = {0}
              /\ returned = {simhashHammingDistance(call.simhash2, call.simhash1)})
    /\ call.fn = "isSimhashChangeSignificant" =>
          (ReturnedOnFingerprints(call.fn, call.oldSimhash, call.newSimhash) =>
              returned = {Cardinality(DifferingBits(call.oldSimhash, call.newSimhash))
                             > (IF call.threshold = {} THEN 10 ELSE the(call.threshold))})

C17_Witness ==
    /\ ReturnedOnFingerprints("isSimhashChangeSignificant", call.oldSimhash, call.newSimhash)
    /\ call.threshold = {}
    /\ Cardinality(DifferingBits(call.oldSimhash, call.newSimhash)) = 10
    /\ returned = {FALSE}

C17_AboveWitness ==
    /\ ReturnedOnFingerprints("isSimhashChangeSignificant", call.oldSimhash, call.newSimhash)
    /\ call.threshold = {}
    /\ Cardinality(DifferingBits(call.oldSimhash, call.newSimhash)) = 11
    /\ returned = {TRUE}

C17_DistanceWitness ==
    /\ ReturnedOnFingerprints("simhashHammingDistance", call.simhash1, call.simhash2)
    /\ returned = {64}

\* the tokens of a text whose digest has bit i, and those whose digest has not
TokensWithBit(text, i) ==
    {k \in DOMAIN Tokenize(text) : i \in Sha256Bits[Tokenize(text)[k]]}

TokensWithoutBit(text, i) ==
    {k \in DOMAIN Tokenize(text) : i \notin Sha256Bits[Tokenize(text)[k]]}

\* the text has no letter: it is empty, blank, or blanks and punctuation
WithoutTokens(text) == \A k \in DOMAIN text : ~IsWordChar(text[k])

\* C18: generateSimhash gives one fingerprint per text; it is the all-zero
\* fingerprint for a text that is empty, blank or without tokens once the
\* punctuation is gone, and bit i of it is 1 exactly when more tokens of the
\* text have bit i in their digest than have not (none on a tie).
C18_SimhashZeroWithoutTokensAndStrictMajority ==
    call.fn = "generateSimhash" /\ returned # {} =>
        /\ returned = {generateSimhash(call.text)}
        /\ WithoutTokens(call.text) => returned = {{}}
        /\ \A i \in BitPositions :
              i \in the(returned) <=>
                 Cardinality(TokensWithBit(call.text, i))
                    > Cardinality(TokensWithoutBit(call.text, i))

C18_Witness ==
    /\ call.fn = "generateSimhash"
    /\ returned # {}
    /\ returned # {{}}
    /\ \E i \in BitPositions :
          /\ TokensWithBit(call.text, i) # {}
          /\ Cardinality(TokensWithBit(call.text, i))
                = Cardinality(TokensWithoutBit(call.text, i))
          /\ i \notin the(returned)

C18_ZeroWitness ==
    /\ call.fn = "generateSimhash"
    /\ Len(call.text) = 2
    /\ \A k \in DOMAIN call.text : call.text[k] = "."
    /\ returned = {{}}

\* the days of the timestamps of the call that Date parses, as a sequence
ParsedDays(list) == SelectSeq(list, LAMBDA ts : ts # {})

\* C19: featureUpdateCadence returns 0.5 when it is given no list, a list
\* of fewer than 4 timestamps, or a list of which fewer than 4 are parsed.
C19_FewerThanFourIsNeutral ==
    call.fn = "featureUpdateCadence" /\ returned # {} =>
        (call.updateTimestamps = {}
            \/ Len(ParsedDays(the(call.updateTimestamps))) < 4
         => returned = {500})

C19_Witness ==
    /\ call.fn = "featureUpdateCadence"
    /\ call.updateTimestamps # {}
    /\ Len(the(call.updateTimestamps)) = 4
    /\ Len(ParsedDays(the(call.updateTimestamps))) = 3
    /\ returned = {500}

C19_UndefinedWitness ==
    /\ call.fn = "featureUpdateCadence"
    /\ call.updateTimestamps = {}
    /\ returned = {500}

\* the days of the parsed timestamps of a list
DaysOf(list) ==
    LET parsed == ParsedDays(list)
    IN  [i \in DOMAIN parsed |-> the(parsed[i])]

\* the k-th smallest of the days, whatever their order is
KthDay(days, k) ==
    CHOOSE v \in {days[i] : i \in DOMAIN days} :
        /\ Cardinality({i \in DOMAIN days : days[i] < v}) < k
        /\ k <= Cardinality({i \in DOMAIN days : days[i] <= v})

\* the inter-arrival intervals of the days, in days
GapsOf(days) == [k \in 1..(Len(days) - 1) |-> KthDay(days, k + 1) - KthDay(days, k)]

\* the score the claim gives to intervals, in thousandths.  With n
\* intervals of sum S and sum of squares Q, CV^2 = variance / mean^2 is
\* (n * Q - S^2) / S^2; the score is 0 for CV < 0.2 (and for a mean of 0),
\* 1 for CV > 0.5, and (CV - 0.2) / 0.3 between
ScoreOfCV(gaps) ==
    LET S == SumOf(gaps)
        Q == SumOf([k \in DOMAIN gaps |-> gaps[k] * gaps[k]])
        num == Len(gaps) * Q - S * S
        den == S * S
    IN  IF S = 0 \/ 25 * num < den THEN 0
        ELSE IF 4 * num > den THEN 1000
        ELSE ((Sqrt((num * 1000000) \div den) - 200) * 1000) \div 300

\* the intervals of the call in the state
Gaps == GapsOf(DaysOf(the(call.updateTimestamps)))

\* the call is of featureUpdateCadence on a list of which 4 or more
\* timestamps are parsed, and has returned
ReturnedCadence ==
    /\ call.fn = "featureUpdateCadence"
    /\ call.updateTimestamps # {}
    /\ Len(ParsedDays(the(call.updateTimestamps))) >= 4
    /\ returned # {}

\* C20: on 4 or more timestamps in any order the score is the one the
\* coefficient of variation of the sorted inter-arrival intervals gives
\* (0 below 0.2, 1 above 0.5, (CV - 0.2) / 0.3 between); it is 0 for
\* equally spaced and for all-identical timestamps, and it is within [0, 1].
C20_CadenceFollowsCV ==
    ReturnedCadence =>
        LET gaps == Gaps
        IN  /\ returned = {ScoreOfCV(gaps)}
            /\ the(returned) \in 0..1000
            /\ (\A k \in DOMAIN gaps : gaps[k] = gaps[1]) => returned = {0}

C20_Witness ==
    /\ ReturnedCadence
    /\ \E i \in 1..(Len(the(call.updateTimestamps)) - 1) :
          \E earlier \in the(call.updateTimestamps)[i + 1] :
             \E later \in the(call.updateTimestamps)[i] : later > earlier
    /\ the(returned) \in 1..999

C20_EqualSpacingWitness ==
    /\ ReturnedCadence
    /\ \A k \in DOMAIN Gaps : Gaps[k] = 3
    /\ returned = {0}

C20_IdenticalWitness ==
    /\ ReturnedCadence
    /\ SumOf(Gaps) = 0
    /\ returned = {0}

C20_RegularWitness ==
    /\ ReturnedCadence
    /\ \E k \in DOMAIN Gaps : Gaps[k] # Gaps[1]
    /\ returned = {0}

C20_IrregularWitness ==
    /\ ReturnedCadence
    /\ returned = {1000}

\* the ten signals of the weight table
Signals ==
    {"freshness", "link_integrity", "salary_disclosure", "salary_min_present",
     "source_credibility", "skills_present", "buzzword_penalty",
     "comp_period_clarity", "update_cadence", "content_change_quality"}

\* C23: the weight table finalizeScore uses when no weight is overridden
\* has the ten signals, and their weights sum to 1.0 (100 hundredths).
C23_WeightsSumToOne ==
    call.fn = "finalizeScore" /\ call.weights = <<>> =>
        /\ DOMAIN MergedWeights(call.weights) = Signals
        /\ SumOver(Signals, MergedWeights(call.weights)) = 100

\* the signals of the breakdown of the call that have a positive weight
Contributing ==
    {k \in DOMAIN call.breakdown :
        k \in DOMAIN MergedWeights(call.weights) /\ MergedWeights(call.weights)[k] > 0}

\* C22: when some signal of the breakdown has a positive weight,
\* finalizeScore returns the sum of weight times (clamped) value over the
\* signals present with a positive weight, divided by the sum of those
\* weights (here rounded down to thousandths); the result lies between the
\* smallest and the largest contributing value, and it is 1.0 for the
\* breakdown of freshness = 1.0 and link_integrity = 1.0 alone.
C22_WeightedMeanOfPresentSignals ==
    call.fn = "finalizeScore" /\ returned # {} /\ Contributing # {} =>
        LET w == MergedWeights(call.weights)
            used == Contributing
            value == [k \in used |-> clamp01(call.breakdown[k])]
            numerator == SumOver(used, [k \in used |-> w[k] * value[k]])
            denominator == SumOver(used, [k \in used |-> w[k]])
            score == the(returned)
        IN  /\ score * denominator <= numerator
            /\ numerator < (score + 1) * denominator
            /\ \E k \in used : value[k] <= score
            /\ \E k \in used : score <= value[k]
            /\ call.breakdown = [freshness |-> 1000, link_integrity |-> 1000]
                  => score = 1000

C22_Witness ==
    /\ call.fn = "finalizeScore"
    /\ call.weights = <<>>
    /\ call.breakdown = [freshness |-> 400, link_integrity |-> 1000, extra_signal |-> 0]
    /\ returned = {616}

C22_OnesWitness ==
    /\ call.fn = "finalizeScore"
    /\ call.weights = <<>>
    /\ call.breakdown = [freshness |-> 1000, link_integrity |-> 1000]
    /\ returned = {1000}

\* C24: when no signal of the breakdown has a positive weight,
\* finalizeScore returns the plain mean of the clamped values of the
\* breakdown (here rounded down to thousandths), and 0 for the empty
\* breakdown.
C24_FallbackIsPlainMean ==
    call.fn = "finalizeScore" /\ returned # {} /\ Contributing = {} =>
        LET keys == DOMAIN call.breakdown
            total == SumOver(keys, [k \in keys |-> clamp01(call.breakdown[k])])
            score == the(returned)
        IN  IF keys = {} THEN score = 0
            ELSE /\ score * Cardinality(keys) <= total
                 /\ total < (score + 1) * Cardinality(keys)

C24_Witness ==
    /\ call.fn = "finalizeScore"
    /\ call.weights = [freshness |-> 0, link_integrity |-> 0, update_cadence |-> 0]
    /\ call.breakdown = [freshness |-> 1500, link_integrity |-> 400, extra_signal |-> -500]
    /\ returned = {466}

C24_EmptyWitness ==
    /\ call.fn = "finalizeScore"
    /\ call.breakdown = <<>>
    /\ returned = {0}

\* C21: the score scoreJob returns is within [0, 1] (0..1000 thousandths),
\* and so is every value of the breakdown it returns.
C21_ScoreAndBreakdownWithinUnit ==
    call.fn = "scoreJob" /\ returned # {} =>
        /\ the(returned).score \in 0..1000
        /\ \A k \in DOMAIN the(returned).breakdown :
              the(returned).breakdown[k] \in 0..1000

\* what does hold: the score is within [0, 1], and so is every value of
\* the breakdown other than buzzword_penalty
C21_ScoreWithinUnit ==
    call.fn = "scoreJob" /\ returned # {} =>
        /\ the(returned).score \in 0..1000
        /\ \A k \in DOMAIN the(returned).breakdown \ {"buzzword_penalty"} :
              the(returned).breakdown[k] \in 0..1000

\* the risk a tier stands for: High is the riskiest
RiskRank(tier) == IF tier = "High" THEN 3 ELSE IF tier = "Medium" THEN 2 ELSE 1

\* C25: the tier is High below 0.4, Medium from 0.4 up to but excluding 0.7,
\* Low from 0.7; a higher score never gets a tier of higher risk.
C25_TierFromScoreAlone ==
    call.fn = "TierOf" /\ returned # {} =>
        LET tier == the(returned) IN
        /\ tier = "High" <=> call.score < 400
        /\ tier = "Medium" <=> (400 <= call.score /\ call.score < 700)
        /\ tier = "Low" <=> call.score >= 700
        /\ \A higher \in Scores :
              higher > call.score => RiskRank(TierOf(higher)) <= RiskRank(tier)

\* a score of exactly 0.4 got Medium and one of exactly 0.7 got Low
C25_Witness ==
    /\ call.fn = "TierOf"
    /\ call.score = 400
    /\ returned = {"Medium"}

C25_LowWitness ==
    /\ call.fn = "TierOf"
    /\ call.score = 700
    /\ returned = {"Low"}

\* the messages a returned list holds
Pushed(list) == {list[i] : i \in 1..Len(list)}

\* the signals of a group whose value in the breakdown is below 0.5
Below(breakdown, group) ==
    {k \in group \cap DOMAIN breakdown : breakdown[k] < 500}

CadenceGroup == {"update_cadence", "content_change_quality", "freshness"}

CadenceMessages ==
    {Msg.cadenceRefreshStale, Msg.cadenceRefresh, Msg.cadenceStale, Msg.refreshStale,
     Msg.stale, Msg.cadence, Msg.refresh}

\* C26: with both salary signals below 0.5 the list holds the compound salary
\* message and neither individual one; the same for the two NLP signals; with
\* two or three of update_cadence, content_change_quality and freshness below
\* 0.5 the list holds exactly one message of that group, a compound one; with
\* no value below 0.5 the list is the single message 'No ghosts detected'.
C26_CompoundMessagesReplaceIndividual ==
    call.fn = "generateRecommendations" /\ returned # {} =>
        LET b == call.breakdown
            list == the(returned)
            msgs == Pushed(list)
        IN  /\ Below(b, {"salary_disclosure", "salary_min_present"})
                  = {"salary_disclosure", "salary_min_present"}
                => Msg.salaryUnclear \in msgs /\ msgs \cap {Msg.salaryRange, Msg.salaryMin} = {}
            /\ Below(b, {"skills_present", "buzzword_penalty"})
                  = {"skills_present", "buzzword_penalty"}
                => Msg.vague \in msgs /\ msgs \cap {Msg.skills, Msg.buzzwords} = {}
            /\ Cardinality(Below(b, CadenceGroup)) >= 2
                => /\ Cardinality({i \in 1..Len(list) : list[i] \in CadenceMessages}) = 1
                   /\ msgs \cap {Msg.stale, Msg.cadence, Msg.refresh} = {}
            /\ Below(b, DOMAIN b) = {} => list = <<Msg.noGhosts>>

\* both salary signals, both NLP signals and all three signals of the
\* cadence group were below 0.5, and the three compound messages came back
C26_Witness ==
    /\ call.fn = "generateRecommendations"
    /\ {"salary_disclosure", "salary_min_present", "skills_present",
        "buzzword_penalty"} \cup CadenceGroup
          \subseteq Below(call.breakdown, DOMAIN call.breakdown)
    /\ returned = {<<Msg.salaryUnclear, Msg.vague, Msg.cadenceRefreshStale>>}

\* no value was below 0.5 and the single message came back
C26_NoGhostsWitness ==
    /\ call.fn = "generateRecommendations"
    /\ Below(call.breakdown, DOMAIN call.breakdown) = {}
    /\ returned = {<<Msg.noGhosts>>}

\* C27: a request whose fetched posting fails validation, whatever its
\* provider, ends with success = false (and so without a score).
C27_InvalidPostingNeverScored ==
    \A p \in Workers :
        apc[p] = "done" /\ adapterJob[p] # {} =>
            (~the(adapterJob[p]).valid => ~result[p])

\* what does hold: a posting that is not a greenhouse posting and fails
\* validation ends with success = false and no row written
C27_InvalidWebPostingNeverScored ==
    \A p \in Workers :
        apc[p] = "done" /\ adapterJob[p] # {} =>
            LET job == the(adapterJob[p]) IN
            job.ats_provider # "greenhouse" /\ ~job.valid =>
                ~result[p] /\ h_req[p].wrote = NoWrites

\* the writes of a re-ingest other than the upsert of the job: the insert of
\* the job update, the upsert of the features, the insert of the snapshot
CacheWrites == {"upd_insert", "features", "snap_create"}

\* C28: a re-ingest in which nothing failed but writes of the job update, of
\* the features or of the snapshot, and at least one of them did, returns
\* success (with the score); one whose upsert of the job fails, and so
\* returns no id, returns failure.
C28_CacheWriteFailuresNotFatal ==
    \A p \in Workers :
        apc[p] = "done" /\ h_req[p].path = "refresh" =>
            /\ (h_req[p].failed # {} /\ h_req[p].failed \subseteq CacheWrites) => result[p]
            /\ "upsert" \in h_req[p].failed => ~result[p] /\ jobId[p] = 0

\* a re-ingest returned success although its insert of the job update
\* (features upsert, snapshot insert) had failed
C28_Witness ==
    \E p \in Workers :
        /\ apc[p] = "done"
        /\ h_req[p].path = "refresh"
        /\ h_req[p].failed = {"upd_insert"}
        /\ result[p]

C28_FeaturesWitness ==
    \E p \in Workers :
        /\ apc[p] = "done"
        /\ h_req[p].path = "refresh"
        /\ h_req[p].failed = {"features"}
        /\ result[p]

C28_SnapshotWitness ==
    \E p \in Workers :
        /\ apc[p] = "done"
        /\ h_req[p].path = "refresh"
        /\ h_req[p].failed = {"snap_create"}
        /\ result[p]

\* a re-ingest whose upsert of the job failed returned failure
C28_UpsertWitness ==
    \E p \in Workers :
        /\ apc[p] = "done"
        /\ h_req[p].path = "refresh"
        /\ h_req[p].failed = {"upsert"}
        /\ ~result[p]

\* two postings agree on the fields named
AgreeOn(fields, a, b) == \A f \in fields : a[f] = b[f]

\* C29: the metadata hash is decided by title, company, location,
\* first_published and requisition_id: every posting that agrees with the
\* hashed one on these five fields has the same metadata hash, also when
\* its updated_at differs.
C29_MetadataHashOfFiveFields ==
    call.fn = "generateMetadataHash" /\ returned # {} =>
        \A other \in MetadataJobs :
            AgreeOn({"title", "company_name", "location", "first_published",
                     "requisition_id"}, call.jobData, other)
                => generateMetadataHash(other) = the(returned)

\* what does hold: the metadata hash is decided by these five fields
\* together with updated_at, and changes with each of the six
C29_MetadataHashOfSixFields ==
    call.fn = "generateMetadataHash" /\ returned # {} =>
        \A other \in MetadataJobs :
            AgreeOn({"title", "company_name", "location", "first_published",
                     "requisition_id", "updated_at"}, call.jobData, other)
                <=> generateMetadataHash(other) = the(returned)

\* the user's row is there and is_available has the given value
AvailableIs(table, userId, value) ==
    /\ RowsOf(table, userId) # {}
    /\ \A r \in RowsOf(table, userId) : r.is_available = value

\* caller p is inside set_request_lock for userId with its flip having
\* matched the row
Flipped(p, userId) ==
    lpc[p] \in {"decrement", "compensate"} /\ luser[p] = userId

\* C30: a flip of set_request_lock matches only a row with is_available =
\* true and leaves it false, and a row goes from false to true only by a
\* release or by the compensation after a failed decrement; so of two calls
\* for one user whose flips both match, the second flips after such a write.
C30_RacingFlipsNeedReopening ==
    [][\A u \in Users :
          /\ \A p \in Callers :
                Idle(p) /\ Flipped(p, u)' =>
                    AvailableIs(request_lock, u, TRUE) /\ AvailableIs(request_lock, u, FALSE)'
          /\ AvailableIs(request_lock, u, FALSE) /\ AvailableIs(request_lock, u, TRUE)' =>
                \/ \E p \in Callers : lpc[p] = "compensate" /\ luser[p] = u /\ Idle(p)'
                \/ \E frame \in BOOLEAN :
                      h_lcalls' = Remember(h_lcalls,
                          CallRecord("release", u, "done", RowsOf(request_lock, u),
                                     RowsOf(request_lock', u), frame))]_vars

\* two calls for one user are in flight with both their flips matched: the
\* row was opened again between the two flips
C30_Witness ==
    \E u \in Users : \E p \in Callers : \E q \in Callers \ {p} :
        /\ lpc[p] = "decrement" /\ luser[p] = u
        /\ lpc[q] = "decrement" /\ luser[q] = u

\* C31: an acquire that has run to completion leaves the lock open: after a
\* set_request_lock that failed at its decrement and made its compensating
\* update, and after a granted set_request_lock followed by the release of
\* the same user, the user's row has is_available = true, also when storage
\* writes fail.
C31_LockNeverLeftClosed ==
    /\ \A i \in SetCalls :
          h_lcalls[i].res \in {"throw_dec", "throw_dec_uncompensated"} =>
              \A r \in h_lcalls[i].post : r.is_available
    /\ (/\ Len(h_lcalls) = 2
        /\ 1 \in Granted
        /\ 2 \in Releases
        /\ h_lcalls[2].user = h_lcalls[1].user)
       => \A r \in h_lcalls[2].post : r.is_available

\* the step in which a set_request_lock for user u ends granted: its
\* decrement is applied
GrantStep(u) ==
    \E p \in Callers : lpc[p] = "decrement" /\ luser[p] = u /\ lpc'[p] = "idle"

\* C32: with the calls for one user interleaved, the token count is exact and
\* never goes up: a new row holds 3 tokens, the step that grants a
\* set_request_lock lowers tokens_remaining of the user's row by exactly one,
\* and no other step changes it, so that tokens_remaining = 3 - number of
\* grants whenever no acquire is between its flip and its decrement.
C32_TokenAccountingExact ==
    [][\A u \in Users :
          /\ \A s \in RowsOf(request_lock', u) :
                RowsOf(request_lock, u) = {} => s.tokens_remaining = InitialTokens
          /\ \A r \in RowsOf(request_lock, u), s \in RowsOf(request_lock', u) :
                s.tokens_remaining
                   = r.tokens_remaining - (IF GrantStep(u) THEN 1 ELSE 0)]_vars

\* snapshots k and l of one job follow each other in the order of capture
AdjacentSnapshots(k, l) ==
    /\ k < l
    /\ job_snapshots[k].job_id = job_snapshots[l].job_id
    /\ \A m \in SnapshotsOf(job_snapshots[k].job_id) : ~(k < m /\ m < l)

\* C33: with requests for one greenhouse posting running side by side and
\* every call succeeding, a request that found no row of jobs and ends
\* with success leaves exactly one row of job_snapshots for its job, and two
\* snapshots of a job that follow each other in the order of capture have
\* different ats_updated_at.
C33_SnapshotLogGatedUnderRace ==
    /\ \A p \in Workers :
          (/\ h_req[p].path = "new"
           /\ h_req[p].found = {}
           /\ apc[p] = "done"
           /\ result[p])
          => Cardinality(SnapshotsOf(jobId[p])) = 1
    /\ \A k, l \in DOMAIN job_snapshots :
          AdjacentSnapshots(k, l) =>
              job_snapshots[k].ats_updated_at # job_snapshots[l].ats_updated_at

\* the request of p re-ingests an existing job and InsertToJobUpdatesTable
\* has read a stored updated_at that is not null
DecidedOnStored(p) ==
    /\ h_req[p].path = "refresh"
    /\ h_req[p].compared # {}
    /\ NULL \notin h_req[p].compared

\* C34: for an existing job whose stored updated_at is not null,
\* InsertToJobUpdatesTable adds a row to job_updates only when the incoming
\* updated_at is not null and strictly later in time than the stored one (an
\* equal, an older or a null one adds nothing); it adds that row whenever
\* this is so and the insert succeeds, and the row has the id of the job and
\* the incoming updated_at.
C34_UpdateEventOnlyWhenStrictlyNewer ==
    \A p \in Workers :
        DecidedOnStored(p) =>
            LET incoming == the(adapterJob[p]).updated_at
                newer == /\ incoming # NULL
                         /\ \A c \in h_req[p].compared : GetTime(incoming) > GetTime(c)
            IN  /\ h_req[p].wrote.job_updates \in {0, 1}
                /\ h_req[p].wrote.job_updates = 1 =>
                      /\ newer
                      /\ job_updates[Len(job_updates)]
                            = [job_id |-> the(existingJob[p]).id,
                               ats_updated_at |-> incoming]
                /\ (/\ newer
                    /\ apc[p] \notin {"upd_select", "upd_insert"}
                    /\ "upd_insert" \notin h_req[p].failed)
                   => h_req[p].wrote.job_updates = 1

C34_Witness ==
    \E p \in Workers :
        /\ DecidedOnStored(p)
        /\ h_req[p].wrote.job_updates = 1
        /\ apc[p] = "upsert"

\* the incoming updated_at is another text for the stored instant
C34_EqualWitness ==
    \E p \in Workers :
        /\ DecidedOnStored(p)
        /\ the(adapterJob[p]).updated_at \notin h_req[p].compared \cup {NULL}
        /\ \A c \in h_req[p].compared :
              GetTime(the(adapterJob[p]).updated_at) = GetTime(c)
        /\ h_req[p].wrote.job_updates = 0
        /\ apc[p] = "upsert"

\* C35: a request served from the cache has fetched nothing from the
\* external source: on the cache-hit path the request holds no posting
\* returned by scrapeJobFromUrl (adapterJob is what the fetch returned).
C35_CacheHitIssuesNoFetch ==
    \A p \in Workers : h_req[p].path = "hit" => adapterJob[p] = {}

\* log is the beginning of longer: its rows are there, unchanged and in place
IsPrefix(log, longer) ==
    /\ Len(log) <= Len(longer)
    /\ \A k \in DOMAIN log : longer[k] = log[k]

\* C36: no step removes a row of jobs or changes its composite key, no step
\* removes or changes a row of job_updates or of job_snapshots (rows are only
\* appended), a new row of jobs is active, and is_active of a row goes from
\* true to false only in the update of a request whose fetch returned
\* nothing.
C36_HistoryOnlyGrows ==
    [][/\ Len(jobs) <= Len(jobs')
       /\ \A i \in DOMAIN jobs :
             /\ KeyMatches(jobs'[i], jobs[i].ats, jobs[i].tenant_slug,
                           jobs[i].external_job_id)
             /\ jobs[i].is_active /\ ~jobs'[i].is_active =>
                   \E p \in Workers : /\ apc[p] = "mark_inactive"
                                      /\ h_req[p].path = "unreachable"
                                      /\ i \in h_req[p].found
       /\ \A i \in DOMAIN jobs' : i \notin DOMAIN jobs => jobs'[i].is_active
       /\ IsPrefix(job_updates, job_updates')
       /\ IsPrefix(job_snapshots, job_snapshots')]_vars

C36_Witness ==
    /\ Len(job_updates) = 2
    /\ Len(job_snapshots) >= 1
    /\ \E i \in DOMAIN jobs : ~jobs[i].is_active

\* C37: a request that ends in failure because its upsert into jobs gave no
\* id has changed nothing: it has added no row to job_updates and the rows
\* of jobs with its key have the last_seen they had at its lookup.
C37_FailedUpsertLeavesStateUnchanged ==
    \A p \in Workers :
        (/\ "upsert" \in h_req[p].failed
         /\ apc[p] = "done"
         /\ ~result[p])
        => /\ h_req[p].wrote.job_updates = 0
           /\ {jobs[i].last_seen : i \in h_req[p].found}
                 = {r.last_seen : r \in h_req[p].was}

\* C38: when a request that re-ingests an existing job ends with success
\* and none of its calls has failed, the row of the job has last_seen = the
\* time of the request, whatever the incoming updated_at, null included.
C38_ReingestAdvancesLastSeen ==
    \A p \in Workers :
        (/\ h_req[p].path = "refresh"
         /\ h_req[p].failed = {}
         /\ apc[p] = "done"
         /\ result[p])
        => \A i \in h_req[p].found : jobs[i].last_seen = now

\* C39: when a request for a greenhouse posting ends with success, served
\* from the cache or not, and none of its calls has failed, the row of jobs
\* with its key is active.
C39_SuccessLeavesRecordActive ==
    \A p \in Workers :
        (/\ h_req[p].path \in {"hit", "refresh", "new"}
         /\ h_req[p].failed = {}
         /\ apc[p] = "done"
         /\ result[p])
        => /\ jobId[p] \in DOMAIN jobs
           /\ jobs[jobId[p]].is_active

\* the history of the call of featureContentChangeQuality, empty when
\* snapshotData is undefined
HistoryOfCall == IF call.snapshotData = {} THEN <<>> ELSE the(call.snapshotData)

\* the snapshots that have a predecessor, and those among them whose content
\* or metadata fingerprint is more than 10 bits away from the predecessor's
ComparedSnapshots == 2..Len(HistoryOfCall)

ChangedSnapshots ==
    {i \in ComparedSnapshots :
        \/ simhashHammingDistance(HistoryOfCall[i - 1].content_simhash,
                                  HistoryOfCall[i].content_simhash) > DefaultThreshold
        \/ simhashHammingDistance(HistoryOfCall[i - 1].metadata_simhash,
                                  HistoryOfCall[i].metadata_simhash) > DefaultThreshold}

\* the fingerprints observed (content and metadata of every compared
\* snapshot), and those that occur more than once among them
ObservedFingerprints == ComparedSnapshots \X {"content_simhash", "metadata_simhash"}

RepeatingFingerprints ==
    {o \in ObservedFingerprints :
        \E other \in ObservedFingerprints :
            /\ other # o
            /\ HistoryOfCall[other[1]][other[2]] = HistoryOfCall[o[1]][o[2]]}

C40_ReducedWitness ==
    /\ call.fn = "featureContentChangeQuality"
    /\ Len(HistoryOfCall) = 3
    /\ RepeatingFingerprints = ObservedFingerprints
    /\ call.updateCadenceScore = {300}
    /\ returned = {250}

C40_NeutralWitness ==
    /\ call.fn = "featureContentChangeQuality"
    /\ Len(HistoryOfCall) = 1
    /\ returned = {Neutral}

====
